---- MODULE Spec2Model ----
(***************************************************************************)
(* Route resolution and part-count decision engine of the Bitzy swap SDK:  *)
(* the offline high-value classification, the online threshold decision,   *)
(* the process-wide minimum-amounts cache behind it, the batch             *)
(* coordinator, and fetchSwapRoute with its validation, wrap detection and *)
(* amount split.  Addresses are modelled as the sequences of characters of *)
(* the source's string literals, so that toLowerCase() is computed and not *)
(* assumed.                                                                *)
(***************************************************************************)
EXTENDS Integers, Sequences, FiniteSets, TLC

(***************************************************************************)
(* Token addresses: the literals of HIGH_VALUE_TOKENS and of the unit      *)
(* tests, character by character.                                          *)
(***************************************************************************)
ADDR_NATIVE ==
    << "0","x","E","e","e","e","e","E","e","e","e","E","e","E","e","e","E","e","E","e","E","e","e","E","E","E","e","e","e","e","E","e","e","e","e","e","e","e","E","E","e","E" >>

ADDR_PBTC ==
    << "0","x","0","D","2","4","3","7","F","9","3","F","e","d","6","E","A","6","4","E","f","0","1","c","C","d","e","3","8","5","F","B","1","2","6","3","9","1","0","C","5","6" >>

ADDR_USDCE ==
    << "0","x","2","9","e","E","6","1","3","8","D","D","4","C","9","8","1","5","f","4","6","D","3","4","a","4","A","1","e","d","4","8","F","4","6","7","5","8","A","4","0","2" >>

ADDR_ROVBTC ==
    << "0","x","9","B","C","5","7","4","a","6","f","1","1","7","0","e","9","0","D","8","0","8","2","6","D","8","6","a","6","1","2","6","d","5","9","1","9","8","A","3","E","f" >>

ADDR_USDC ==
    << "0","x","A","0","b","8","6","a","3","3","E","6","4","4","1","b","8","c","4","C","8","C","0","C","4","C","0","C","4","C","0","C","4","C","0","C","4","C","0","C","4","C" >>

ADDR_USDT ==
    << "0","x","d","A","C","1","7","F","9","5","8","D","2","e","e","5","2","3","a","2","2","0","6","2","0","6","9","9","4","5","9","7","C","1","3","D","8","3","1","e","c","7" >>

ADDR_WBTC_TESTNET ==
    << "0","x","2","3","3","6","3","1","1","3","2","F","D","5","6","c","8","f","8","6","D","1","F","C","9","7","F","0","b","8","2","4","2","0","a","8","d","2","0","a","f","3" >>

ADDR_MOCK ==
    << "0","x","1","2","3","4","5","6","7","8","9","0","1","2","3","4","5","6","7","8","9","0","1","2","3","4","5","6","7","8","9","0","1","2","3","4","5","6","7","8","9","0" >>

ADDR_MOCK2 ==
    << "0","x","0","9","8","7","6","5","4","3","2","1","0","9","8","7","6","5","4","3","2","1","0","9","8","7","6","5","4","3","2","1","0","9","8","7","6","5","4","3","2","1" >>

\* The canonical addresses the inputs are built from.
BaseAddresses ==
    { ADDR_NATIVE, ADDR_PBTC, ADDR_USDCE, ADDR_ROVBTC, ADDR_USDC, ADDR_USDT,
      ADDR_WBTC_TESTNET, ADDR_MOCK, ADDR_MOCK2 }

(***************************************************************************)
(* String.prototype.toLowerCase on the characters an address can hold.     *)
(***************************************************************************)
toLowerCaseChar(c) ==
    CASE c = "A" -> "a" [] c = "B" -> "b" [] c = "C" -> "c"
      [] c = "D" -> "d" [] c = "E" -> "e" [] c = "F" -> "f"
      [] c = "X" -> "x" [] OTHER -> c

toLowerCase(s) == [i \in 1..Len(s) |-> toLowerCaseChar(s[i])]

\* The upper-case spelling of an address, as the unit test writes it
\* ("0X0D2437F93FED6EA64EF01CCDE385FB1263910C56").
toUpperCaseChar(c) ==
    CASE c = "a" -> "A" [] c = "b" -> "B" [] c = "c" -> "C"
      [] c = "d" -> "D" [] c = "e" -> "E" [] c = "f" -> "F"
      [] c = "x" -> "X" [] OTHER -> c

toUpperCase(s) == [i \in 1..Len(s) |-> toUpperCaseChar(s[i])]

(***************************************************************************)
(* Tokens.  A token argument is a Token object or null/undefined; only the *)
(* address field is read by the part-count code.  An empty address is the  *)
(* empty string.                                                           *)
(***************************************************************************)
NullToken == [isNull |-> TRUE, address |-> << >>]

Token(a) == [isNull |-> FALSE, address |-> a]

AddressInputs ==
    BaseAddresses
      \cup { toLowerCase(a) : a \in BaseAddresses }
      \cup { toUpperCase(a) : a \in BaseAddresses }
      \cup { << >> }

TokenInputs == { NullToken } \cup { Token(a) : a \in AddressInputs }

CHAIN_MAINNET == 3637

CHAIN_TESTNET == 3636

CHAIN_UNKNOWN == 9999

ChainIds == { CHAIN_MAINNET, CHAIN_TESTNET, CHAIN_UNKNOWN }

(***************************************************************************)
(* HIGH_VALUE_TOKENS: chainId -> list of addresses.  A chain id outside    *)
(* the domain reads as undefined.                                          *)
(***************************************************************************)
HIGH_VALUE_TOKENS ==
    (CHAIN_MAINNET :>
        << ADDR_NATIVE, ADDR_PBTC, ADDR_USDCE, ADDR_ROVBTC, ADDR_USDC, ADDR_USDT >>)
    @@
    (CHAIN_TESTNET :>
        << ADDR_NATIVE, ADDR_WBTC_TESTNET, ADDR_USDC, ADDR_USDT >>)

\* isHighValueToken with the registry entry compared as written (the
\* toLowerCase() on the list side left out).
isHighValueToken_NoLower(token, chainId) ==
    IF token.isNull \/ token.address = << >> THEN FALSE
    ELSE IF chainId \notin DOMAIN HIGH_VALUE_TOKENS THEN FALSE
    ELSE LET networkTokens == HIGH_VALUE_TOKENS[chainId]
         IN  \E i \in 1..Len(networkTokens) :
                networkTokens[i] = toLowerCase(token.address)

isHighValueToken(token, chainId) ==
    IF token.isNull \/ token.address = << >> THEN FALSE
    ELSE IF chainId \notin DOMAIN HIGH_VALUE_TOKENS THEN FALSE
    ELSE LET networkTokens == HIGH_VALUE_TOKENS[chainId]
             address == toLowerCase(token.address)
         IN  \E i \in 1..Len(networkTokens) :
                toLowerCase(networkTokens[i]) = address

getPartCountOffline(srcToken, dstToken, chainId, defaultPartCount) ==
    LET srcIsHighValue == isHighValueToken(srcToken, chainId)
        dstIsHighValue == isHighValueToken(dstToken, chainId)
    IN  IF srcIsHighValue /\ dstIsHighValue THEN defaultPartCount ELSE 1

(***************************************************************************)
(* Decimal strings and BigNumber.  amountIn and minimumAmount are decimal  *)
(* strings; new BigNumber(s) of a string of digits (with an optional       *)
(* leading minus) is its value, of "Infinity" and "-Infinity" the infinite *)
(* value, and of any other string modelled here ("", "abc") NaN.  Only     *)
(* strings of these kinds are used as inputs.                              *)
(***************************************************************************)
DigitValue(c) ==
    CASE c = "0" -> 0 [] c = "1" -> 1 [] c = "2" -> 2 [] c = "3" -> 3
      [] c = "4" -> 4 [] c = "5" -> 5 [] c = "6" -> 6 [] c = "7" -> 7
      [] c = "8" -> 8 [] c = "9" -> 9 [] OTHER -> -1

IsDigits(s) == Len(s) > 0 /\ \A i \in 1..Len(s) : DigitValue(s[i]) >= 0

RECURSIVE DigitsValue(_)
DigitsValue(s) ==
    IF Len(s) = 0 THEN 0
    ELSE 10 * DigitsValue(SubSeq(s, 1, Len(s) - 1)) + DigitValue(s[Len(s)])

NaN == [nan |-> TRUE, finite |-> FALSE, v |-> 0]

INFINITY == << "I", "n", "f", "i", "n", "i", "t", "y" >>

\* An infinite value keeps its sign in v.
BigNumber(s) ==
    IF IsDigits(s) THEN [nan |-> FALSE, finite |-> TRUE, v |-> DigitsValue(s)]
    ELSE IF Len(s) > 1 /\ s[1] = "-" /\ IsDigits(Tail(s))
         THEN [nan |-> FALSE, finite |-> TRUE, v |-> 0 - DigitsValue(Tail(s))]
    ELSE IF s = INFINITY THEN [nan |-> FALSE, finite |-> FALSE, v |-> 1]
    ELSE IF s = << "-" >> \o INFINITY THEN [nan |-> FALSE, finite |-> FALSE, v |-> -1]
    ELSE NaN

\* BigNumber.prototype.gte: false when either side is NaN.
gte(a, b) ==
    /\ ~a.nan
    /\ ~b.nan
    /\ IF a.finite /\ b.finite THEN a.v >= b.v
       ELSE IF ~a.finite THEN a.v > 0 \/ (~b.finite /\ b.v < 0)
       ELSE b.v < 0

\* BigNumber.prototype.gt: false when either side is NaN.
gt(a, b) == gte(a, b) /\ ~gte(b, a)

\* Number(s) of the same strings; the empty string converts to 0.
Number(s) ==
    IF Len(s) = 0 THEN [nan |-> FALSE, finite |-> TRUE, v |-> 0] ELSE BigNumber(s)

(***************************************************************************)
(* The threshold endpoint's answer, as apiClient.getAssetMinimum() hands   *)
(* it to getMinimumAmounts: the promise rejects (network error), rejects   *)
(* after the client's timeout, or resolves with a body {success, data,     *)
(* error}.  body.data is an array of items, undefined, or a value that is  *)
(* no array; an item is a record {token, minimumAmount} (either field may  *)
(* be missing) or null.                                                    *)
(***************************************************************************)
Item(tok, min) == [isNull |-> FALSE, hasToken |-> TRUE, token |-> tok, minimumAmount |-> min]

ItemNoToken(min) == [isNull |-> FALSE, hasToken |-> FALSE, token |-> << >>, minimumAmount |-> min]

NullItem == [isNull |-> TRUE, hasToken |-> FALSE, token |-> << >>, minimumAmount |-> << >>]

ArrayData(items) == [shape |-> "array", items |-> items]

UndefinedData == [shape |-> "undefined", items |-> << >>]

ObjectData == [shape |-> "object", items |-> << >>]

Resolved(success, data) == [settle |-> "resolve", success |-> success, data |-> data]

Rejected == [settle |-> "reject", success |-> "absent", data |-> UndefinedData]

TimedOut == [settle |-> "timeout", success |-> "absent", data |-> UndefinedData]

NoResponse == [settle |-> "none", success |-> "absent", data |-> UndefinedData]

(***************************************************************************)
(* The process-wide cache and the clock.                                   *)
(***************************************************************************)
CACHE_DURATION == 5 * 60 * 1000

\* The clock advances in steps of half the validity window, so that a call
\* can fall inside the window, exactly on expiresAt, and after it.
TICK == CACHE_DURATION \div 2

MaxTicks == 3

NumProcs == 2

Procs == 1..NumProcs

NullCache == [isNull |-> TRUE, data |-> ArrayData(<< >>), timestamp |-> 0, expiresAt |-> 0]

\* The apiBaseUrl the tests pass, and the apiKey parameter left out.
API_BASE_URL == "https://api-public.bitzy.app"

NoApiKey == ""

\* The (apiBaseUrl, apiKey) a call hands to getMinimumAmounts.
Endpoint(apiBaseUrl, apiKey) == [apiBaseUrl |-> apiBaseUrl, apiKey |-> apiKey]

NoEndpoint == Endpoint("", "")

NoArgs ==
    [srcToken |-> NullToken, dstToken |-> NullToken, amountIn |-> << >>,
     chainId |-> 0, partCount |-> 0, apiBaseUrl |-> "", apiKey |-> NoApiKey]

Args(src, dst, amountIn, chainId, partCount) ==
    [srcToken |-> src, dstToken |-> dst, amountIn |-> amountIn,
     chainId |-> chainId, partCount |-> partCount,
     apiBaseUrl |-> API_BASE_URL, apiKey |-> NoApiKey]

\* The arguments of a direct getMinimumAmounts(apiBaseUrl, apiKey) call.
MinArgs(apiBaseUrl, apiKey) ==
    [NoArgs EXCEPT !.apiBaseUrl = apiBaseUrl, !.apiKey = apiKey]

(***************************************************************************)
(* Swap requests and results.  A token of a request carries its optional   *)
(* chainId; a SwapOptions carries the request's chainId, the amount, an    *)
(* optional partCount and forcePartCount (0: not given) and the online     *)
(* part-count switch.  A route is represented by its number of hops, an    *)
(* amount by its integer value.                                            *)
(***************************************************************************)
\* Token.chainId not given.
NoChainId == 0

TokenOn(a, c) == [isNull |-> FALSE, address |-> a, chainId |-> c]

SwapOptions(src, dst, amountIn, chainId, mode) ==
    [srcToken |-> src, dstToken |-> dst, amountIn |-> amountIn,
     chainId |-> chainId, partCount |-> mode.partCount,
     forcePartCount |-> mode.forcePartCount,
     onlinePartCount |-> mode.onlinePartCount]

NoOptions ==
    [srcToken |-> NullToken, dstToken |-> NullToken, amountIn |-> << >>,
     chainId |-> 0, partCount |-> 0, forcePartCount |-> 0,
     onlinePartCount |-> FALSE]

\* The quoting service's answer: the promise rejects, or resolves with the
\* routes, the distribution and the outputs.
Quote(routes, distributions, amountOutRoutes, amountOut) ==
    [settle |-> "resolve", routes |-> routes, distributions |-> distributions,
     amountOutRoutes |-> amountOutRoutes, amountOut |-> amountOut]

QuoteRejected ==
    [settle |-> "reject", routes |-> << >>, distributions |-> << >>,
     amountOutRoutes |-> << >>, amountOut |-> 0]

NoQuote ==
    [settle |-> "none", routes |-> << >>, distributions |-> << >>,
     amountOutRoutes |-> << >>, amountOut |-> 0]

NoRouteResult ==
    [isNull |-> TRUE, routes |-> << >>, distributions |-> << >>,
     amountOutRoutes |-> << >>, amountOutBN |-> 0, amountInParts |-> << >>,
     isAmountOutError |-> FALSE, isWrap |-> "none"]

NoError == << "", 0 >>

(***************************************************************************)
(* The useSwapV3Routes hook: its arguments and config, the part count it   *)
(* computes, the effect that fetches the online part count, the debounced  *)
(* fetchRoute and the refresh interval.  A timer is represented by the     *)
(* time left until it fires; timers fire in the order of their due times,  *)
(* promises settle at any time.                                            *)
(***************************************************************************)
\* A number | null state value, and an optional number of the config.
NullPartCount == [isNull |-> TRUE, value |-> 0]

SomePartCount(n) == [isNull |-> FALSE, value |-> n]

\* debounce(fetchRoute, 300)
DEBOUNCE_WAIT == 300

\* `refreshInterval = 10000`
DEFAULT_REFRESH_INTERVAL == 10000

\* No timer pending.
NoTimer == -1

\* The config after destructuring: defaultPartCount, forcePartCount
\* (NullPartCount: undefined), useOnlinePartCount and refreshInterval.
UseSwapV3RoutesConfig(defaultPartCount, forcePartCount, useOnlinePartCount, refreshInterval) ==
    [defaultPartCount |-> defaultPartCount, forcePartCount |-> forcePartCount,
     useOnlinePartCount |-> useOnlinePartCount,
     refreshInterval |-> refreshInterval]

NoHookConfig ==
    UseSwapV3RoutesConfig(5, NullPartCount, FALSE, DEFAULT_REFRESH_INTERVAL)

\* The hook's positional arguments.
HookProps(srcToken, dstToken, amountIn, chainId) ==
    [srcToken |-> srcToken, dstToken |-> dstToken, amountIn |-> amountIn,
     chainId |-> chainId]

NoHookProps == HookProps(NullToken, NullToken, << >>, 0)

\* The partCount memo with the override looked at first: forcePartCount
\* wins over the online mode.
partCountMemo_ForceFirst(config, props, online) ==
    IF ~config.forcePartCount.isNull THEN config.forcePartCount.value
    ELSE IF config.useOnlinePartCount /\ ~online.isNull THEN online.value
    ELSE getPartCountOffline(props.srcToken, props.dstToken, props.chainId,
                             config.defaultPartCount)

\* The partCount memo with the override classified like a default: it is
\* used only for a pair of high-value tokens.
partCountMemo_ForceClassified(config, props, online) ==
    IF config.useOnlinePartCount
    THEN IF ~online.isNull THEN online.value
         ELSE getPartCountOffline(props.srcToken, props.dstToken,
                                  props.chainId, config.defaultPartCount)
    ELSE IF ~config.forcePartCount.isNull
    THEN getPartCountOffline(props.srcToken, props.dstToken, props.chainId,
                             config.forcePartCount.value)
    ELSE getPartCountOffline(props.srcToken, props.dstToken, props.chainId,
                             config.defaultPartCount)

\* const partCount = useMemo(...)
partCountMemo(config, props, online) ==
    IF config.useOnlinePartCount
    THEN IF ~online.isNull THEN online.value
         ELSE getPartCountOffline(props.srcToken, props.dstToken,
                                  props.chainId, config.defaultPartCount)
    ELSE IF ~config.forcePartCount.isNull THEN config.forcePartCount.value
    ELSE getPartCountOffline(props.srcToken, props.dstToken, props.chainId,
                             config.defaultPartCount)

\* The online effect fetching whether or not online mode is on.
OnlineEffectRuns_AnyMode(config, props) ==
    /\ ~props.srcToken.isNull
    /\ ~props.dstToken.isNull
    /\ props.amountIn # << >>

\* The condition of the effect that fetches the online part count.
OnlineEffectRuns(config, props) ==
    /\ config.useOnlinePartCount
    /\ ~props.srcToken.isNull
    /\ ~props.dstToken.isNull
    /\ props.amountIn # << >>

\* `!amountIn || amountIn === "0"`
NoAmount(props) == props.amountIn = << >> \/ props.amountIn = << "0" >>

\* The early return of fetchRoute.
FetchRouteSkips(props) ==
    props.srcToken.isNull \/ props.dstToken.isNull \/ NoAmount(props)

VARIABLES
    now,                  \* Date.now()
    minimumAmountsCache,  \* the module-level cache entry, or null
    pc,                   \* per caller: "idle", "fetching", "returned", "threw"
    kind,                 \* per caller: the exported function it is in
    args,                 \* per caller: the call's arguments
    callNow,              \* per caller: the local `now` of getMinimumAmounts
                          \* (0 outside the call)
    ret,                  \* per caller: what getMinimumAmounts returned
    result,               \* per caller: the part count returned
    issued,               \* per caller: this call sent a request
    issuedAt,             \* per caller: clock value when its pending request
                          \* was sent (0 when none is pending)
    resp,                 \* per caller: the answer its request received
    clearPending,         \* clear() returned and no call has started since
    overlap,              \* per caller: callers in flight during this call
    doneOrder,            \* callers whose fetch completed, oldest first
    installedBy,          \* the caller that wrote the current entry, or 0
    installedFor,         \* the (apiBaseUrl, apiKey) of the call that wrote it
    batchPc,              \* fetchBatchSwapRoutes: "idle", "running",
                          \* "resolved", "rejected"
    batchRequests,        \* its argument: the requests, in order
    batchItems,             \* per request: the state of its fetchSwapRoute call
    settleOrder,          \* indices of the settled items, first settled first
    batchResult,          \* the array the batch call resolved with
    routePc,              \* fetchSwapRoute: "idle", "threshold", "quoting",
                          \* "returned", "threw"
    routeOptions,         \* its SwapOptions argument
    routePartCount,       \* the part count the quote is asked for (0: none)
    routeQuote,           \* the quoting service's answer
    routeResult,          \* the SwapResult it resolved with
    routeError,           \* the error it rejected with
    quoteRequests,        \* requests this call sent to the quoting service
    thresholdRequests,    \* requests this call sent to the threshold endpoint
    hookPc,               \* useSwapV3Routes: "unmounted", "mounted"
    hookProps,            \* its arguments srcToken, dstToken, amountIn, chainId
    hookConfig,           \* its config
    onlinePartCount,      \* the onlinePartCount state: a number or null
    onlineCalls,          \* the fetchOnlinePartCount calls in flight, in
                          \* the order they were started
    debounceLeft,         \* ms until the debounce timeout fires, or NoTimer
    intervalLeft,         \* ms until the interval fires next, or NoTimer
    isFirstFetch,         \* the isFirstFetch state
    fetchCalls,           \* requests fetchRoute sent since the mount
    fetchPending,         \* of these, the ones not yet settled
    fetchPartCount,       \* options.partCount of the last request (0: none)
    timerCalls,           \* interval callbacks run since the mount
    exposed,              \* the outputs the hook returns
    debounceTimeout,      \* debounce: ms until its timeout fires, or NoTimer
    debounceArgs,         \* the arguments the pending timeout will pass
    debounceCalls,        \* the arguments of the calls since the last run
                          \* or cancel
    debounceElapsed,      \* ms since the last of these calls
    debounceLog           \* the runs of func and the cancels so far

cacheVars ==
    << now, minimumAmountsCache, pc, kind, args, callNow, ret, result,
       issued, issuedAt, resp, clearPending, overlap,
       doneOrder, installedBy,
                    installedFor >>

batchVars == << batchPc, batchRequests, batchItems, settleOrder, batchResult >>

routeVars ==
    << routePc, routeOptions, routePartCount, routeQuote, routeResult,
       routeError, quoteRequests, thresholdRequests >>

debounceVars ==
    << debounceTimeout, debounceArgs, debounceCalls, debounceElapsed,
       debounceLog >>

hookVars ==
    << hookPc, hookProps, hookConfig, onlinePartCount, onlineCalls,
       debounceLeft, intervalLeft, isFirstFetch, fetchCalls, fetchPending,
       fetchPartCount, timerCalls, exposed, debounceVars >>

vars == << cacheVars, batchVars, routeVars, hookVars >>

Init ==
    /\ now = 0
    /\ minimumAmountsCache = NullCache
    /\ pc = [p \in Procs |-> "idle"]
    /\ kind = [p \in Procs |-> "none"]
    /\ args = [p \in Procs |-> NoArgs]
    /\ callNow = [p \in Procs |-> 0]
    /\ ret = [p \in Procs |-> ArrayData(<< >>)]
    /\ result = [p \in Procs |-> 0]
    /\ issued = [p \in Procs |-> FALSE]
    /\ issuedAt = [p \in Procs |-> 0]
    /\ resp = [p \in Procs |-> NoResponse]
    /\ clearPending = FALSE
    /\ overlap = [p \in Procs |-> {}]
    /\ doneOrder = << >>
    /\ installedBy = 0
    /\ installedFor = NoEndpoint
    /\ batchPc = "idle"
    /\ batchRequests = << >>
    /\ batchItems = << >>
    /\ settleOrder = << >>
    /\ batchResult = << >>
    /\ routePc = "idle"
    /\ routeOptions = NoOptions
    /\ routePartCount = 0
    /\ routeQuote = NoQuote
    /\ routeResult = NoRouteResult
    /\ routeError = NoError
    /\ quoteRequests = 0
    /\ thresholdRequests = 0
    /\ hookPc = "unmounted"
    /\ hookProps = NoHookProps
    /\ hookConfig = NoHookConfig
    /\ onlinePartCount = NullPartCount
    /\ onlineCalls = << >>
    /\ debounceLeft = NoTimer
    /\ intervalLeft = NoTimer
    /\ isFirstFetch = FALSE
    /\ fetchCalls = 0
    /\ fetchPending = {}
    /\ fetchPartCount = 0
    /\ timerCalls = 0
    /\ exposed = [result |-> 0, isAmountOutError |-> FALSE, error |-> 0,
                  isWrap |-> "undefined"]
    /\ debounceTimeout = NoTimer
    /\ debounceArgs = 0
    /\ debounceCalls = << >>
    /\ debounceElapsed = 0
    /\ debounceLog = << >>

(***************************************************************************)
(* getPartCountOnline, after `await getMinimumAmounts(...)`.               *)
(* An outcome is a value or a throw.                                       *)
(***************************************************************************)
Value(n) == [threw |-> FALSE, value |-> n]

Thrown == [threw |-> TRUE, value |-> 0]

\* What getMinimumAmounts handed back: the records, or a throw.
MinReturned(data) == [threw |-> FALSE, data |-> data]

MinThrew == [threw |-> TRUE, data |-> ArrayData(<< >>)]

NotFound == [threw |-> FALSE, found |-> FALSE, item |-> NullItem]

FindThrew == [threw |-> TRUE, found |-> FALSE, item |-> NullItem]

\* minimumData.find(item => item.token?.toLowerCase() ===
\*                          token.address.toLowerCase())
\* Reading .token of a null item, or .address of a null token, throws.
RECURSIVE find(_, _, _)
find(items, i, token) ==
    IF i > Len(items) THEN NotFound
    ELSE IF items[i].isNull \/ token.isNull THEN FindThrew
    ELSE IF items[i].hasToken
            /\ toLowerCase(items[i].token) = toLowerCase(token.address)
         THEN [threw |-> FALSE, found |-> TRUE, item |-> items[i]]
    ELSE find(items, i + 1, token)

\* The try block with the threshold branch returning the caller's
\* fallbackPartCount instead of the fixed 5.
OnlineDecision_ReturnsFallback(a, minimumData) ==
    IF minimumData.shape # "array" THEN Thrown
    ELSE LET srcTokenMin == find(minimumData.items, 1, a.srcToken)
             dstTokenMin == find(minimumData.items, 1, a.dstToken)
             amountInBN  == BigNumber(a.amountIn)
         IN  IF srcTokenMin.threw \/ dstTokenMin.threw THEN Thrown
             ELSE IF /\ srcTokenMin.found
                     /\ dstTokenMin.found
                     /\ gte(amountInBN, BigNumber(srcTokenMin.item.minimumAmount))
                     /\ gte(amountInBN, BigNumber(dstTokenMin.item.minimumAmount))
                  THEN Value(a.partCount)
             ELSE Value(getPartCountOffline(a.srcToken, a.dstToken,
                                            a.chainId, a.partCount))

\* The try block with the else branch calling getPartCountOffline without
\* fallbackPartCount, so that its default of 5 applies.
OnlineDecision_DefaultFallback(a, minimumData) ==
    IF minimumData.shape # "array" THEN Thrown
    ELSE LET srcTokenMin == find(minimumData.items, 1, a.srcToken)
             dstTokenMin == find(minimumData.items, 1, a.dstToken)
             amountInBN  == BigNumber(a.amountIn)
         IN  IF srcTokenMin.threw \/ dstTokenMin.threw THEN Thrown
             ELSE IF /\ srcTokenMin.found
                     /\ dstTokenMin.found
                     /\ gte(amountInBN, BigNumber(srcTokenMin.item.minimumAmount))
                     /\ gte(amountInBN, BigNumber(dstTokenMin.item.minimumAmount))
                  THEN Value(5)
             ELSE Value(getPartCountOffline(a.srcToken, a.dstToken, a.chainId, 5))

\* The try block with a network filter on the lookup: a record counts only
\* for a token that HIGH_VALUE_TOKENS lists on the call's chain.
OnlineDecision_NetworkFilter(a, minimumData) ==
    IF minimumData.shape # "array" THEN Thrown
    ELSE LET srcTokenMin == find(minimumData.items, 1, a.srcToken)
             dstTokenMin == find(minimumData.items, 1, a.dstToken)
             amountInBN  == BigNumber(a.amountIn)
         IN  IF srcTokenMin.threw \/ dstTokenMin.threw THEN Thrown
             ELSE IF /\ srcTokenMin.found
                     /\ dstTokenMin.found
                     /\ isHighValueToken(a.srcToken, a.chainId)
                     /\ isHighValueToken(a.dstToken, a.chainId)
                     /\ gte(amountInBN, BigNumber(srcTokenMin.item.minimumAmount))
                     /\ gte(amountInBN, BigNumber(dstTokenMin.item.minimumAmount))
                  THEN Value(5)
             ELSE Value(getPartCountOffline(a.srcToken, a.dstToken,
                                            a.chainId, a.partCount))

\* The body of the try block once minimumData is there.
OnlineDecision(a, minimumData) ==
    IF minimumData.shape # "array" THEN Thrown
    ELSE LET srcTokenMin == find(minimumData.items, 1, a.srcToken)
             dstTokenMin == find(minimumData.items, 1, a.dstToken)
             amountInBN  == BigNumber(a.amountIn)
         IN  IF srcTokenMin.threw \/ dstTokenMin.threw THEN Thrown
             ELSE IF /\ srcTokenMin.found
                     /\ dstTokenMin.found
                     /\ gte(amountInBN, BigNumber(srcTokenMin.item.minimumAmount))
                     /\ gte(amountInBN, BigNumber(dstTokenMin.item.minimumAmount))
                  THEN Value(5)
             ELSE Value(getPartCountOffline(a.srcToken, a.dstToken,
                                            a.chainId, a.partCount))

\* getPartCountOnline without its catch block: a throw of the try block
\* reaches the caller.
getPartCountOnline_NoCatch(a, min) ==
    IF min.threw THEN Thrown ELSE OnlineDecision(a, min.data)

getPartCountOnline(a, min) ==
    LET tryBlock == IF min.threw THEN Thrown ELSE OnlineDecision(a, min.data)
    IN  IF tryBlock.threw
        THEN Value(getPartCountOffline(a.srcToken, a.dstToken,
                                       a.chainId, a.partCount))
        ELSE tryBlock

\* getPartCountWithFallback handling the failed threshold fetch itself: it
\* returns fallbackPartCount whenever getMinimumAmounts threw.
getPartCountWithFallback_OwnFallback(a, min) ==
    IF min.threw THEN Value(a.partCount) ELSE getPartCountOnline(a, min)

getPartCountWithFallback(a, min) ==
    LET online == getPartCountOnline(a, min)
    IN  IF online.threw THEN Value(a.partCount) ELSE online

(***************************************************************************)
(* The caller's continuation once getMinimumAmounts has returned or        *)
(* thrown: the exported function the caller is in runs to its end.         *)
(***************************************************************************)
Outcome(k, a, min) ==
    CASE k = "online"       -> getPartCountOnline(a, min)
      [] k = "withFallback" -> getPartCountWithFallback(a, min)
      [] OTHER              -> [threw |-> min.threw, value |-> 0]

Finish(p, k, a, min) ==
    LET o == Outcome(k, a, min)
    IN  /\ pc' = [pc EXCEPT ![p] = IF o.threw THEN "threw" ELSE "returned"]
        /\ ret' = [ret EXCEPT ![p] = min.data]
        /\ result' = [result EXCEPT ![p] = o.value]

\* `data.data || []`
OrEmpty(d) == IF d.shape = "undefined" THEN ArrayData(<< >>) ELSE d

\* The cache test with the comparison turned round.
CacheIsValid_Inverted(t) ==
    ~minimumAmountsCache.isNull /\ t > minimumAmountsCache.expiresAt

\* The cache test with <= for <: an entry is still served at expiresAt.
CacheIsValid_LteExpiry(t) ==
    ~minimumAmountsCache.isNull /\ t <= minimumAmountsCache.expiresAt

\* `minimumAmountsCache && now < minimumAmountsCache.expiresAt`
CacheIsValid(t) ==
    ~minimumAmountsCache.isNull /\ t < minimumAmountsCache.expiresAt

\* The cache update made to keep an entry that expires no earlier than the
\* new one would.
NewEntry_KeepExisting(p, r) ==
    IF /\ ~minimumAmountsCache.isNull
       /\ minimumAmountsCache.expiresAt >= callNow[p] + CACHE_DURATION
    THEN minimumAmountsCache
    ELSE [isNull |-> FALSE, data |-> OrEmpty(r.data), timestamp |-> callNow[p],
          expiresAt |-> callNow[p] + CACHE_DURATION]

\* The cache update made field by field into the existing object, the
\* expiry left for later: data and timestamp of this fetch stand next to
\* the expiresAt of the one before.
NewEntry_FieldByField(p, r) ==
    [isNull |-> FALSE, data |-> OrEmpty(r.data), timestamp |-> callNow[p],
     expiresAt |-> IF minimumAmountsCache.isNull
                   THEN callNow[p] + CACHE_DURATION
                   ELSE minimumAmountsCache.expiresAt]

\* The entry getMinimumAmounts writes on a successful fetch.
NewEntry(p, r) ==
    [isNull |-> FALSE, data |-> OrEmpty(r.data), timestamp |-> callNow[p],
     expiresAt |-> callNow[p] + CACHE_DURATION]

\* Begin with the cache keyed by endpoint and credentials: an entry is
\* served only to a call with the (apiBaseUrl, apiKey) that populated it.
Begin_KeyedByEndpoint(p, k, a) ==
    /\ pc[p] = "idle"
    /\ kind' = [kind EXCEPT ![p] = k]
    /\ args' = [args EXCEPT ![p] = a]
    /\ clearPending' = FALSE
    /\ IF CacheIsValid(now) /\ installedFor = Endpoint(a.apiBaseUrl, a.apiKey)
       THEN /\ Finish(p, k, a, MinReturned(minimumAmountsCache.data))
            /\ issued' = [issued EXCEPT ![p] = FALSE]
            /\ UNCHANGED << callNow, issuedAt, overlap >>
       ELSE /\ callNow' = [callNow EXCEPT ![p] = now]
            /\ issued' = [issued EXCEPT ![p] = TRUE]
            /\ issuedAt' = [issuedAt EXCEPT ![p] = now]
            /\ pc' = [pc EXCEPT ![p] = "fetching"]
            /\ overlap' = [q \in Procs |->
                             IF q = p THEN { x \in Procs : pc[x] = "fetching" }
                             ELSE IF pc[q] = "fetching" THEN overlap[q] \cup {p}
                             ELSE overlap[q]]
            /\ UNCHANGED << ret, result >>
    /\ UNCHANGED << now, minimumAmountsCache, resp, doneOrder, installedBy,
                    installedFor >>
    /\ UNCHANGED << batchVars, routeVars, hookVars >>

(***************************************************************************)
(* A caller enters getMinimumAmounts (directly, or through                 *)
(* getPartCountOnline / getPartCountWithFallback) and runs to its first    *)
(* await: a live entry is returned at once, otherwise a request is sent.   *)
(***************************************************************************)
Begin(p, k, a) ==
    /\ pc[p] = "idle"
    /\ kind' = [kind EXCEPT ![p] = k]
    /\ args' = [args EXCEPT ![p] = a]
    /\ clearPending' = FALSE
    /\ IF CacheIsValid(now)
       THEN /\ Finish(p, k, a, MinReturned(minimumAmountsCache.data))
            /\ issued' = [issued EXCEPT ![p] = FALSE]
            /\ UNCHANGED << callNow, issuedAt, overlap >>
       ELSE /\ callNow' = [callNow EXCEPT ![p] = now]
            /\ issued' = [issued EXCEPT ![p] = TRUE]
            /\ issuedAt' = [issuedAt EXCEPT ![p] = now]
            /\ pc' = [pc EXCEPT ![p] = "fetching"]
            /\ overlap' = [q \in Procs |->
                             IF q = p THEN { x \in Procs : pc[x] = "fetching" }
                             ELSE IF pc[q] = "fetching" THEN overlap[q] \cup {p}
                             ELSE overlap[q]]
            /\ UNCHANGED << ret, result >>
    /\ UNCHANGED << now, minimumAmountsCache, resp, doneOrder, installedBy,
                    installedFor >>
    /\ UNCHANGED << batchVars, routeVars, hookVars >>

\* The test after the await with the cache written before `data.success` is
\* looked at: every answered request installs an entry.
FetchSucceeded_AnyAnswer(r) == r.settle = "resolve"

\* `await apiClient.getAssetMinimum()` resolved and `!data.success` is false:
\* execution reaches the cache update.
FetchSucceeded(r) == r.settle = "resolve" /\ r.success = "true"

\* The request of caller p is answered; getMinimumAmounts resumes after its
\* await and the caller's function runs to its end.
Response(p, r) ==
    /\ pc[p] = "fetching"
    /\ resp' = [resp EXCEPT ![p] = r]
    /\ doneOrder' = Append(doneOrder, p)
    /\ IF FetchSucceeded(r)
       THEN /\ minimumAmountsCache' = NewEntry(p, r)
            /\ installedBy' = p
            /\ installedFor' = Endpoint(args[p].apiBaseUrl, args[p].apiKey)
            /\ Finish(p, kind[p], args[p], MinReturned(minimumAmountsCache'.data))
       ELSE /\ Finish(p, kind[p], args[p], MinThrew)
            /\ UNCHANGED << minimumAmountsCache, installedBy,
                    installedFor >>
    /\ callNow' = [callNow EXCEPT ![p] = 0]
    /\ issuedAt' = [issuedAt EXCEPT ![p] = 0]
    /\ UNCHANGED << now, kind, args, issued, clearPending, overlap >>
    /\ UNCHANGED << batchVars, routeVars, hookVars >>

\* The caller takes the result; its slot is free for the next call.
Return(p) ==
    /\ pc[p] \in {"returned", "threw"}
    /\ pc' = [pc EXCEPT ![p] = "idle"]
    /\ kind' = [kind EXCEPT ![p] = "none"]
    /\ args' = [args EXCEPT ![p] = NoArgs]
    /\ ret' = [ret EXCEPT ![p] = ArrayData(<< >>)]
    /\ result' = [result EXCEPT ![p] = 0]
    /\ issued' = [issued EXCEPT ![p] = FALSE]
    /\ resp' = [resp EXCEPT ![p] = NoResponse]
    /\ overlap' = [q \in Procs |-> IF q = p THEN {} ELSE overlap[q] \ {p}]
    /\ doneOrder' = SelectSeq(doneOrder, LAMBDA x : x # p)
    /\ UNCHANGED << now, minimumAmountsCache, callNow, issuedAt, clearPending,
                    installedBy,
                    installedFor >>
    /\ UNCHANGED << batchVars, routeVars, hookVars >>

clearMinimumAmountsCache ==
    /\ minimumAmountsCache' = NullCache
    /\ clearPending' = TRUE
    /\ installedBy' = 0
    /\ installedFor' = NoEndpoint
    /\ UNCHANGED << now, pc, kind, args, callNow, ret, result, issued,
                    issuedAt, resp, overlap, doneOrder >>
    /\ UNCHANGED << batchVars, routeVars, hookVars >>

Tick ==
    /\ now < MaxTicks * TICK
    /\ now' = now + TICK
    /\ UNCHANGED << minimumAmountsCache, pc, kind, args, callNow, ret, result,
                    issued, issuedAt, resp, clearPending, overlap,
                    doneOrder, installedBy,
                    installedFor >>
    /\ UNCHANGED << batchVars, routeVars, hookVars >>

(***************************************************************************)
(* getPartCountOffline called on its own: a pure function of its inputs.   *)
(***************************************************************************)
CallOffline(p, a) ==
    /\ pc[p] = "idle"
    /\ kind' = [kind EXCEPT ![p] = "offline"]
    /\ args' = [args EXCEPT ![p] = a]
    /\ result' = [result EXCEPT ![p] =
                    getPartCountOffline(a.srcToken, a.dstToken, a.chainId, a.partCount)]
    /\ pc' = [pc EXCEPT ![p] = "returned"]
    /\ UNCHANGED << now, minimumAmountsCache, callNow, ret, issued, issuedAt,
                    resp, clearPending, overlap, doneOrder,
                    installedBy,
                    installedFor >>
    /\ UNCHANGED << batchVars, routeVars, hookVars >>

(***************************************************************************)
(* fetchBatchSwapRoutes.  Every request's fetchSwapRoute call is started   *)
(* when the batch starts; each settles on its own, in any order; the batch *)
(* resolves once all have settled, with one result per request.            *)
(***************************************************************************)
MaxBatch == 3

\* Chain ids of the contract address table.
SupportedChains == { CHAIN_MAINNET, CHAIN_TESTNET }

SwapRequest(c, amt) == [chainId |-> c, amountIn |-> amt]

NoRequest == [chainId |-> 0, amountIn |-> << >>]

BatchRequestInputs ==
    { SwapRequest(c, amt) :
        c \in { CHAIN_MAINNET, CHAIN_UNKNOWN }, amt \in { << "1" >>, << "2" >> } }

\* The SwapResult of a request, as far as the batch is concerned: the
\* request it answers and the total output the quoting service reported.
SwapResult(req, out) == [request |-> req, amountOut |-> out]

NoSwapResult == [request |-> NoRequest, amountOut |-> 0]

QuoteOutputs == { 10, 20 }

UnsupportedNetwork(c) == << "Unsupported network: ", c >>

ServiceErrors == { << "Network error", 0 >>, << "Request timeout", 0 >> }

Fetching == [pc |-> "fetching", data |-> NoSwapResult, error |-> NoError]

Fulfilled(d) == [pc |-> "fulfilled", data |-> d, error |-> NoError]

Failed(e) == [pc |-> "rejected", data |-> NoSwapResult, error |-> e]

\* fetchSwapRoute up to its first await: an unsupported chain fails at once.
StartItem(req) ==
    IF req.chainId \notin SupportedChains
    THEN Failed(UnsupportedNetwork(req.chainId))
    ELSE Fetching

\* One entry of the result array: the item's own try/catch.
ItemResult(it) ==
    IF it.pc = "fulfilled"
    THEN [success |-> TRUE, data |-> it.data, error |-> NoError]
    ELSE [success |-> FALSE, data |-> NoSwapResult, error |-> it.error]

\* The batch with the results collected as the batchItems settle.
BatchOutcome_CompletionOrder(its, order) ==
    [rejected |-> FALSE,
     results  |-> [k \in 1..Len(order) |-> ItemResult(its[order[k]])]]

\* The batch without the per-item catch: one failing item rejects it.
BatchOutcome_NoCatch(its, order) ==
    IF \E i \in 1..Len(its) : its[i].pc = "rejected"
    THEN [rejected |-> TRUE, results |-> << >>]
    ELSE [rejected |-> FALSE,
          results  |-> [i \in 1..Len(its) |-> ItemResult(its[i])]]

\* What the batch call settles with: result i is that of request i.
BatchOutcome(its, order) ==
    [rejected |-> FALSE,
     results  |-> [i \in 1..Len(its) |-> ItemResult(its[i])]]

RECURSIVE SeqsUpTo(_, _)
SeqsUpTo(S, n) ==
    IF n = 0 THEN { << >> }
    ELSE LET shorter == SeqsUpTo(S, n - 1)
         IN  shorter \cup { Append(s, x) : s \in { t \in shorter : Len(t) = n - 1 }, x \in S }

BatchInputs == SeqsUpTo(BatchRequestInputs, MaxBatch)

\* An item whose fetchSwapRoute has not been called yet.
Pending == [pc |-> "pending", data |-> NoSwapResult, error |-> NoError]

\* The batch calling fetchSwapRoute for the first request only, the others
\* left for after it has settled.
StartAll_OneAtATime(reqs) ==
    [i \in 1..Len(reqs) |-> IF i = 1 THEN StartItem(reqs[i]) ELSE Pending]

\* requests.map(...): fetchSwapRoute is called for every request before the
\* batch awaits any of them.
StartAll(reqs) ==
    [i \in 1..Len(reqs) |-> StartItem(reqs[i])]

fetchBatchSwapRoutes(reqs) ==
    /\ batchPc = "idle"
    /\ batchRequests' = reqs
    /\ batchItems' = StartAll(reqs)
    /\ settleOrder' = SelectSeq([i \in 1..Len(reqs) |-> i],
                                LAMBDA i : StartAll(reqs)[i].pc = "rejected")
    /\ batchPc' = "running"
    /\ UNCHANGED batchResult
    /\ UNCHANGED << cacheVars, routeVars, hookVars >>

\* The quoting service answers item i: its fetchSwapRoute resolves ...
ItemFulfilled(i, out) ==
    /\ batchPc = "running"
    /\ i \in 1..Len(batchItems)
    /\ batchItems[i].pc = "fetching"
    /\ batchItems' = [batchItems EXCEPT ![i] = Fulfilled(SwapResult(batchRequests[i], out))]
    /\ settleOrder' = Append(settleOrder, i)
    /\ UNCHANGED << batchPc, batchRequests, batchResult >>
    /\ UNCHANGED << cacheVars, routeVars, hookVars >>

\* ... or fails (network error, non-2xx, timeout).
ItemRejected(i, e) ==
    /\ batchPc = "running"
    /\ i \in 1..Len(batchItems)
    /\ batchItems[i].pc = "fetching"
    /\ batchItems' = [batchItems EXCEPT ![i] = Failed(e)]
    /\ settleOrder' = Append(settleOrder, i)
    /\ UNCHANGED << batchPc, batchRequests, batchResult >>
    /\ UNCHANGED << cacheVars, routeVars, hookVars >>

\* The batch settling only when every item has succeeded.
BatchSettle_NeedsSuccess ==
    /\ batchPc = "running"
    /\ \A i \in 1..Len(batchItems) : batchItems[i].pc = "fulfilled"
    /\ LET o == BatchOutcome(batchItems, settleOrder)
       IN  /\ batchPc' = IF o.rejected THEN "rejected" ELSE "resolved"
           /\ batchResult' = o.results
    /\ UNCHANGED << batchRequests, batchItems, settleOrder >>
    /\ UNCHANGED << cacheVars, routeVars, hookVars >>

\* Every item has settled: the batch call settles.
BatchSettle ==
    /\ batchPc = "running"
    /\ \A i \in 1..Len(batchItems) : batchItems[i].pc # "fetching"
    /\ LET o == BatchOutcome(batchItems, settleOrder)
       IN  /\ batchPc' = IF o.rejected THEN "rejected" ELSE "resolved"
           /\ batchResult' = o.results
    /\ UNCHANGED << batchRequests, batchItems, settleOrder >>
    /\ UNCHANGED << cacheVars, routeVars, hookVars >>

\* The caller takes the results; the next batch may start.
BatchReturn ==
    /\ batchPc \in {"resolved", "rejected"}
    /\ batchPc' = "idle"
    /\ batchRequests' = << >>
    /\ batchItems' = << >>
    /\ settleOrder' = << >>
    /\ batchResult' = << >>
    /\ UNCHANGED << cacheVars, routeVars, hookVars >>

(***************************************************************************)
(* Token and amount utilities.                                             *)
(***************************************************************************)
\* isNativeToken comparing the addresses as written.
isNativeToken_NoLower(token, nativeAddress) == token.address = nativeAddress

isNativeToken(token, nativeAddress) ==
    toLowerCase(token.address) = toLowerCase(nativeAddress)

isWrappedToken(token, wrappedAddress) ==
    toLowerCase(token.address) = toLowerCase(wrappedAddress)

\* The truth value of the && chain: a null token, an empty address, equal
\* addresses or different chainId fields make it falsy.
validateTokens(srcToken, dstToken) ==
    /\ ~srcToken.isNull
    /\ ~dstToken.isNull
    /\ srcToken.address # << >>
    /\ dstToken.address # << >>
    /\ srcToken.address # dstToken.address
    /\ srcToken.chainId = dstToken.chainId

\* validateAmount with gte for gt: zero passes.
validateAmount_AllowsZero(amount) ==
    IF Len(amount) = 0 \/ Number(amount).nan THEN FALSE
    ELSE LET num == BigNumber(amount)
         IN  gte(num, BigNumber(<< "0" >>)) /\ num.finite

validateAmount(amount) ==
    IF Len(amount) = 0 \/ Number(amount).nan THEN FALSE
    ELSE LET num == BigNumber(amount)
         IN  gt(num, BigNumber(<< "0" >>)) /\ num.finite

(***************************************************************************)
(* fetchSwapRoute and SwapV3Service.fetchRoute.  The contract address      *)
(* table is looked up first; the service then validates the request,       *)
(* detects wrap and unwrap, resolves the part count, asks the quoting      *)
(* service once and assembles the result.                                  *)
(***************************************************************************)
CONTRACT_ADDRESSES ==
    (CHAIN_MAINNET :> [wrappedAddress |-> ADDR_PBTC, nativeAddress |-> ADDR_NATIVE])
      @@ (CHAIN_TESTNET :> [wrappedAddress |-> ADDR_WBTC_TESTNET,
                            nativeAddress |-> ADDR_NATIVE])

DEFAULT_PART_COUNT == 5

InvalidTokens == << "Invalid tokens", 0 >>

InvalidAmount == << "Invalid amount", 0 >>

ValidationErrors == { InvalidTokens, InvalidAmount }

ServiceFetchError == << "Network error", 0 >>

\* The isWrap flag of a request under a network's addresses.
detectWrap(o, config) ==
    IF /\ isNativeToken(o.srcToken, config.nativeAddress)
       /\ isWrappedToken(o.dstToken, config.wrappedAddress)
    THEN "wrap"
    ELSE IF /\ isWrappedToken(o.srcToken, config.wrappedAddress)
            /\ isNativeToken(o.dstToken, config.nativeAddress)
    THEN "unwrap"
    ELSE "none"

\* The result of a wrap or unwrap: a 1:1 conversion without routes.
WrapResult(o, w) ==
    [isNull |-> FALSE, routes |-> << >>, distributions |-> << >>,
     amountOutRoutes |-> << >>, amountOutBN |-> BigNumber(o.amountIn).v,
     amountInParts |-> << >>, isAmountOutError |-> FALSE, isWrap |-> w]

RECURSIVE SumSeq(_)
SumSeq(s) == IF Len(s) = 0 THEN 0 ELSE s[1] + SumSeq(Tail(s))

\* The split with every part rounded down and no residual added.
splitAmount_NoResidual(amountIn, distributions) ==
    [i \in 1..Len(distributions) |-> (amountIn * distributions[i]) \div 100]

\* The split one part short.
splitAmount_DropsLast(amountIn, distributions) ==
    [i \in 1..(Len(distributions) - 1) |-> (amountIn * distributions[i]) \div 100]

\* amountIn * distribution[i] / 100 per part, the rounding residual added to
\* the last part.
splitAmount(amountIn, distributions) ==
    LET n == Len(distributions)
        floor == [i \in 1..n |-> (amountIn * distributions[i]) \div 100]
    IN  [i \in 1..n |->
           IF i < n THEN floor[i]
           ELSE amountIn - SumSeq(SubSeq(floor, 1, n - 1))]

\* The flag raised only when the service reports no route at all.
isAmountOutError_OnlyNoRoutes(q) == Len(q.routes) = 0

\* No viable route, a total output that is not positive, or a part whose
\* route has no hop.
isAmountOutError(q) ==
    \/ Len(q.routes) = 0
    \/ q.amountOut <= 0
    \/ \E i \in 1..Len(q.routes) : q.routes[i] = 0

AssembleResult(o, q) ==
    [isNull |-> FALSE, routes |-> q.routes, distributions |-> q.distributions,
     amountOutRoutes |-> q.amountOutRoutes, amountOutBN |-> q.amountOut,
     amountInParts |-> splitAmount(BigNumber(o.amountIn).v, q.distributions),
     isAmountOutError |-> isAmountOutError(q), isWrap |-> "none"]

\* The part count when the threshold endpoint is not consulted: an explicit
\* partCount, else forcePartCount, else the offline decision.
ResolveOffline(o) ==
    IF o.partCount # 0 THEN o.partCount
    ELSE IF o.forcePartCount # 0 THEN o.forcePartCount
    ELSE getPartCountOffline(o.srcToken, o.dstToken, o.chainId, DEFAULT_PART_COUNT)

\* The part count in online mode, from what getMinimumAmounts returned.
ResolveOnline(o, min) ==
    getPartCountOnline(
        Args(o.srcToken, o.dstToken, o.amountIn, o.chainId, DEFAULT_PART_COUNT),
        min).value

\* The wrap test made after the part count is resolved.
FirstStep_WrapAfterResolve(o) ==
    IF o.chainId \notin DOMAIN CONTRACT_ADDRESSES THEN "unsupported"
    ELSE IF ~validateTokens(o.srcToken, o.dstToken) THEN "invalidTokens"
    ELSE IF ~validateAmount(o.amountIn) THEN "invalidAmount"
    ELSE IF o.partCount = 0 /\ o.onlinePartCount THEN "online"
    ELSE IF detectWrap(o, CONTRACT_ADDRESSES[o.chainId]) # "none" THEN "wrap"
    ELSE "offline"

\* The address table consulted after the wrap test, against the default
\* network's addresses.
FirstStep_NetworkAfterWrap(o) ==
    IF ~validateTokens(o.srcToken, o.dstToken) THEN "invalidTokens"
    ELSE IF ~validateAmount(o.amountIn) THEN "invalidAmount"
    ELSE IF detectWrap(o, CONTRACT_ADDRESSES[CHAIN_MAINNET]) # "none" THEN "wrap"
    ELSE IF o.chainId \notin DOMAIN CONTRACT_ADDRESSES THEN "unsupported"
    ELSE IF o.partCount = 0 /\ o.onlinePartCount THEN "online"
    ELSE "offline"

\* What the call does before its first await.
FirstStep(o) ==
    IF o.chainId \notin DOMAIN CONTRACT_ADDRESSES THEN "unsupported"
    ELSE IF ~validateTokens(o.srcToken, o.dstToken) THEN "invalidTokens"
    ELSE IF ~validateAmount(o.amountIn) THEN "invalidAmount"
    ELSE IF detectWrap(o, CONTRACT_ADDRESSES[o.chainId]) # "none" THEN "wrap"
    ELSE IF o.partCount = 0 /\ o.onlinePartCount THEN "online"
    ELSE "offline"

\* Weights of n parts summing to 100: as even as integers allow, and all
\* but 1 per part on the last part.
EvenDistribution(n) ==
    [i \in 1..n |-> IF i < n THEN 100 \div n ELSE 100 - (n - 1) * (100 \div n)]

SkewDistribution(n) == [i \in 1..n |-> IF i < n THEN 1 ELSE 100 - (n - 1)]

\* Answers of the quoting service to a request for n parts: one route, one
\* weight and one output per part; the same with no output; the same with
\* a last part that found no path; no route at all; a rejection.
QuotesFor(n) ==
    { Quote([i \in 1..n |-> 1], d, [i \in 1..n |-> 10], 10 * n) :
        d \in { EvenDistribution(n), SkewDistribution(n) } }
      \cup { Quote([i \in 1..n |-> 1], EvenDistribution(n), [i \in 1..n |-> 0], 0),
             Quote([i \in 1..n |-> IF i = n THEN 0 ELSE 1], EvenDistribution(n),
                   [i \in 1..n |-> IF i = n THEN 0 ELSE 10], 10 * (n - 1)),
             Quote(<< >>, << >>, << >>, 0),
             QuoteRejected }

RouteThrows(e) ==
    /\ routePc' = "threw"
    /\ routeError' = e
    /\ routeResult' = NoRouteResult

RouteReturns(r) ==
    /\ routePc' = "returned"
    /\ routeResult' = r
    /\ routeError' = NoError

\* The quote request is sent for n parts.
RouteAsksQuote(n) ==
    /\ routePc' = "quoting"
    /\ routePartCount' = n
    /\ quoteRequests' = quoteRequests + 1
    /\ UNCHANGED << routeResult, routeError >>

fetchSwapRoute(o) ==
    /\ routePc = "idle"
    /\ routeOptions' = o
    /\ LET step == FirstStep(o)
       IN  CASE step = "unsupported" ->
                  /\ RouteThrows(UnsupportedNetwork(o.chainId))
                  /\ UNCHANGED << routePartCount, quoteRequests,
                                  thresholdRequests, callNow >>
             [] step = "invalidTokens" ->
                  /\ RouteThrows(InvalidTokens)
                  /\ UNCHANGED << routePartCount, quoteRequests,
                                  thresholdRequests, callNow >>
             [] step = "invalidAmount" ->
                  /\ RouteThrows(InvalidAmount)
                  /\ UNCHANGED << routePartCount, quoteRequests,
                                  thresholdRequests, callNow >>
             [] step = "wrap" ->
                  /\ RouteReturns(WrapResult(o, detectWrap(o, CONTRACT_ADDRESSES[o.chainId])))
                  /\ UNCHANGED << routePartCount, quoteRequests,
                                  thresholdRequests, callNow >>
             [] step = "online" ->
                  IF CacheIsValid(now)
                  THEN /\ RouteAsksQuote(
                            ResolveOnline(o, MinReturned(minimumAmountsCache.data)))
                       /\ UNCHANGED << thresholdRequests, callNow >>
                  ELSE /\ routePc' = "threshold"
                       /\ thresholdRequests' = thresholdRequests + 1
                       /\ callNow' = [callNow EXCEPT ![1] = now]
                       /\ UNCHANGED << routePartCount, quoteRequests,
                                       routeResult, routeError >>
             [] OTHER ->
                  /\ RouteAsksQuote(ResolveOffline(o))
                  /\ UNCHANGED << thresholdRequests, callNow >>
    /\ UNCHANGED routeQuote
    /\ UNCHANGED << now, minimumAmountsCache, pc, kind, args, ret, result,
                    issued, issuedAt, resp, clearPending, overlap, doneOrder,
                    installedBy,
                    installedFor >>
    /\ UNCHANGED << batchVars, hookVars >>

\* The threshold endpoint answers the call's getMinimumAmounts; the online
\* decision is taken and the quote request sent.
RouteThresholdResponse(r) ==
    /\ routePc = "threshold"
    /\ IF r.settle = "resolve" /\ r.success = "true"
       THEN /\ minimumAmountsCache' = NewEntry(1, r)
            /\ installedBy' = 1
            /\ installedFor' = Endpoint(API_BASE_URL, NoApiKey)
            /\ RouteAsksQuote(
                 ResolveOnline(routeOptions, MinReturned(minimumAmountsCache'.data)))
       ELSE /\ RouteAsksQuote(ResolveOnline(routeOptions, MinThrew))
            /\ UNCHANGED << minimumAmountsCache, installedBy,
                    installedFor >>
    /\ callNow' = [callNow EXCEPT ![1] = 0]
    /\ UNCHANGED << routeOptions, routeQuote, thresholdRequests >>
    /\ UNCHANGED << now, pc, kind, args, ret, result, issued, issuedAt, resp,
                    clearPending, overlap, doneOrder >>
    /\ UNCHANGED << batchVars, hookVars >>

\* The quoting service answers: a rejection is surfaced to the caller, an
\* answer is assembled into the result.
RouteQuoteResponse(q) ==
    /\ routePc = "quoting"
    /\ q \in QuotesFor(routePartCount)
    /\ routeQuote' = q
    /\ IF q.settle = "reject"
       THEN RouteThrows(ServiceFetchError)
       ELSE RouteReturns(AssembleResult(routeOptions, q))
    /\ UNCHANGED << routeOptions, routePartCount, quoteRequests, thresholdRequests >>
    /\ UNCHANGED << cacheVars, batchVars, hookVars >>

\* The caller takes the result or the error.
RouteReturn ==
    /\ routePc \in {"returned", "threw"}
    /\ routePc' = "idle"
    /\ routeOptions' = NoOptions
    /\ routePartCount' = 0
    /\ routeQuote' = NoQuote
    /\ routeResult' = NoRouteResult
    /\ routeError' = NoError
    /\ quoteRequests' = 0
    /\ thresholdRequests' = 0
    /\ UNCHANGED << cacheVars, batchVars, hookVars >>

(***************************************************************************)
(* The hook's render, effects, timers and promises.                        *)
(***************************************************************************)
\* What fetchOnlinePartCount hands to setOnlinePartCount, given what
\* getMinimumAmounts returned or threw.
OnlinePartCountValue(config, props, min) ==
    LET r == getPartCountWithFallback(
               Args(props.srcToken, props.dstToken, props.amountIn,
                    props.chainId, config.defaultPartCount), min)
    IN  IF r.threw THEN NullPartCount ELSE SomePartCount(r.value)

\* The bound on fetchRoute calls, and on interval callbacks, of one mount.
MaxFetches == 2

MaxTimerCalls == 2

\* The bound on fetchOnlinePartCount calls in flight together.
MaxOnlineCalls == 2

\* The outputs of the hook: the call whose SwapResult fills routes,
\* distributions, amountOutRoutes, amountOutBN and amountInParts (0: they
\* are empty), isAmountOutError, the call whose message is in error
\* (0: null), and isWrap.
HookOutputs(res, amountOutError, err, wrap) == [result |-> res, isAmountOutError |-> amountOutError, error |-> err, isWrap |-> wrap]

\* The useState initial values.
NoOutputs == HookOutputs(0, FALSE, 0, "undefined")

\* The setters fetchRoute's early return and the auto-fetch effect call
\* when there is nothing to fetch.
ResetOutputs(out) ==
    [out EXCEPT !.result = 0, !.isAmountOutError = FALSE, !.error = 0]

\* The setters of fetchRoute after swapService.fetchRoute resolved for
\* call c; a degenerate result carries isAmountOutError.
ResultOutputs(out, c, degenerate) ==
    [out EXCEPT !.result = c.id, !.isAmountOutError = degenerate,
                !.isWrap = c.isWrap]

\* The setters of fetchRoute's catch block for call c.
ErrorOutputs(out, c) ==
    [out EXCEPT !.result = 0, !.isAmountOutError = TRUE, !.error = c.id]

\* result.isWrap of a request with these arguments: the service's wrap
\* test under the chain's addresses (the zero address when it has none).
WrapOf(props) ==
    IF props.chainId \in DOMAIN CONTRACT_ADDRESSES
    THEN LET w == detectWrap(props, CONTRACT_ADDRESSES[props.chainId])
         IN  IF w = "none" THEN "undefined" ELSE w
    ELSE "undefined"

\* How swapService.fetchRoute settles: with routes, with a degenerate
\* result, or rejected; a wrap or unwrap is answered without a request.
FetchOutcomes == { "routes", "degenerate", "rejected" }

OutcomePossible(c, outcome) == c.isWrap = "undefined" \/ outcome = "routes"

\* A fetchRoute call in flight: its number since the mount and the isWrap
\* its arguments give.
FetchCall(k, props) == [id |-> k, isWrap |-> WrapOf(props)]

\* A fetchOnlinePartCount call in flight, with the arguments of the render
\* that started it: served by the live cache entry (with the value it then
\* gives), or waiting for its request.
OnlineCall(config, props) ==
    IF CacheIsValid(now)
    THEN [mode |-> "cached", props |-> props, config |-> config,
          value |-> OnlinePartCountValue(config, props,
                                         MinReturned(minimumAmountsCache.data)),
          callNow |-> 0]
    ELSE [mode |-> "fetching", props |-> props, config |-> config,
          value |-> NullPartCount, callNow |-> now]

\* The dependencies of the effect that fetches the online part count.
OnlineEffectDeps(config, props) ==
    << config.useOnlinePartCount, props.srcToken, props.dstToken,
       props.amountIn, props.chainId, config.defaultPartCount >>

\* The online effect of a render with these arguments: it resets
\* onlinePartCount, or starts fetchOnlinePartCount.
OnlineEffect(config, props, calls) ==
    IF OnlineEffectRuns(config, props)
    THEN Append(calls, OnlineCall(config, props))
    ELSE calls

\* The dependencies of swapService and fetchRoute other than partCount.
FetchRouteDeps(config, props) ==
    << config.defaultPartCount, props.srcToken, props.dstToken,
       props.amountIn, props.chainId >>

\* The auto-fetch effect, after the cleanup of its previous run: with no
\* amount it resets the outputs and returns; otherwise it calls
\* debouncedFetchRoute() and setInterval(..., refreshInterval).
AutoFetchEffect(config, props) ==
    IF NoAmount(props)
    THEN /\ debounceLeft' = NoTimer
         /\ intervalLeft' = NoTimer
    ELSE /\ debounceLeft' = DEBOUNCE_WAIT
         /\ intervalLeft' = config.refreshInterval

\* The outputs after the auto-fetch effect ran.
AutoFetchOutputs(props, out) ==
    IF NoAmount(props) THEN ResetOutputs(out) ELSE out

\* fetchRoute() of the render with these arguments and part count n is
\* called: it resets the outputs and returns, or clears error and sends a
\* request to the quoting service.
CallFetchRoute(props, n, firstFetch, pending, out) ==
    IF FetchRouteSkips(props)
    THEN /\ isFirstFetch' = FALSE
         /\ fetchPending' = pending
         /\ exposed' = ResetOutputs(out)
         /\ UNCHANGED << fetchCalls, fetchPartCount >>
    ELSE /\ fetchCalls < MaxFetches
         /\ fetchCalls' = fetchCalls + 1
         /\ fetchPending' = pending \cup { FetchCall(fetchCalls + 1, props) }
         /\ fetchPartCount' = n
         /\ isFirstFetch' = firstFetch
         /\ exposed' = [out EXCEPT !.error = 0]

\* The hook is mounted with its arguments and config: the first render and
\* its effects.
useSwapV3Routes(props, config) ==
    /\ hookPc = "unmounted"
    /\ onlineCalls = << >>
    /\ hookPc' = "mounted"
    /\ hookProps' = props
    /\ hookConfig' = config
    /\ onlinePartCount' = NullPartCount
    /\ isFirstFetch' = FALSE
    /\ fetchCalls' = 0
    /\ fetchPending' = {}
    /\ fetchPartCount' = 0
    /\ timerCalls' = 0
    /\ exposed' = NoOutputs
    /\ AutoFetchEffect(config, props)
    /\ onlineCalls' = OnlineEffect(config, props, onlineCalls)
    /\ UNCHANGED << cacheVars, batchVars, routeVars, debounceVars >>

\* The parent renders the hook with other arguments or config.  The effects
\* whose dependencies changed run: the online effect resets onlinePartCount
\* or starts a call; the auto-fetch effect is cleaned up and run again; the
\* effect on fetchRoute calls fetchRoute() when isFirstFetch is set.  When
\* the online effect's reset changes partCount once more, the render that
\* follows runs the last two again, with arguments for which fetchRoute
\* returns early.
HookRerender(props, config) ==
    /\ hookPc = "mounted"
    /\ << props, config >> # << hookProps, hookConfig >>
    /\ LET effectRuns == OnlineEffectDeps(config, props)
                           # OnlineEffectDeps(hookConfig, hookProps)
           v   == IF effectRuns /\ ~OnlineEffectRuns(config, props)
                  THEN NullPartCount ELSE onlinePartCount
           old == partCountMemo(hookConfig, hookProps, onlinePartCount)
           mid == partCountMemo(config, props, onlinePartCount)
           new == partCountMemo(config, props, v)
           fetchRouteChanged ==
               \/ FetchRouteDeps(config, props) # FetchRouteDeps(hookConfig, hookProps)
               \/ mid # old
               \/ new # mid
           autoFetchChanged ==
               fetchRouteChanged \/ config.refreshInterval # hookConfig.refreshInterval
           out == IF autoFetchChanged THEN AutoFetchOutputs(props, exposed)
                  ELSE exposed
       IN  /\ hookProps' = props
           /\ hookConfig' = config
           /\ onlinePartCount' = v
           /\ IF effectRuns
              THEN /\ OnlineEffectRuns(config, props) => Len(onlineCalls) < MaxOnlineCalls
                   /\ onlineCalls' = OnlineEffect(config, props, onlineCalls)
              ELSE UNCHANGED onlineCalls
           /\ IF autoFetchChanged
              THEN AutoFetchEffect(config, props)
              ELSE UNCHANGED << debounceLeft, intervalLeft >>
           /\ IF fetchRouteChanged /\ isFirstFetch
              THEN CallFetchRoute(props, new, isFirstFetch, fetchPending, out)
              ELSE /\ isFirstFetch' = (isFirstFetch /\ ~(autoFetchChanged /\ NoAmount(props)))
                   /\ exposed' = out
                   /\ UNCHANGED << fetchCalls, fetchPending, fetchPartCount >>
    /\ UNCHANGED << hookPc, timerCalls >>
    /\ UNCHANGED << cacheVars, batchVars, routeVars, debounceVars >>

\* setOnlinePartCount(v) and the render that follows: when partCount
\* changes, fetchRoute and debouncedFetchRoute are new, the auto-fetch
\* effect is cleaned up and run again, and the effect on fetchRoute calls
\* fetchRoute() when isFirstFetch is set.
SetOnlinePartCount(v) ==
    LET old == partCountMemo(hookConfig, hookProps, onlinePartCount)
        new == partCountMemo(hookConfig, hookProps, v)
    IN  /\ onlinePartCount' = v
        /\ IF new = old
           THEN UNCHANGED << debounceLeft, intervalLeft, isFirstFetch,
                             fetchCalls, fetchPending, fetchPartCount, exposed >>
           ELSE /\ AutoFetchEffect(hookConfig, hookProps)
                /\ IF isFirstFetch
                   THEN CallFetchRoute(hookProps, new, isFirstFetch, fetchPending,
                                       AutoFetchOutputs(hookProps, exposed))
                   ELSE /\ exposed' = AutoFetchOutputs(hookProps, exposed)
                        /\ UNCHANGED << isFirstFetch, fetchCalls, fetchPending,
                                        fetchPartCount >>
        /\ UNCHANGED << hookPc, hookProps, hookConfig, timerCalls >>

\* onlineCalls without its i-th call.
WithoutCall(calls, i) ==
    [j \in 1..(Len(calls) - 1) |-> IF j < i THEN calls[j] ELSE calls[j + 1]]

\* The threshold request of the i-th fetchOnlinePartCount call in flight is
\* answered: getMinimumAmounts fills the cache or throws, and the call
\* hands the part count of its own arguments to setOnlinePartCount.
OnlinePartCountSettles(i, r) ==
    /\ i \in 1..Len(onlineCalls)
    /\ onlineCalls[i].mode = "fetching"
    /\ onlineCalls' = WithoutCall(onlineCalls, i)
    /\ IF FetchSucceeded(r)
       THEN /\ minimumAmountsCache' =
                 [isNull |-> FALSE, data |-> OrEmpty(r.data),
                  timestamp |-> onlineCalls[i].callNow,
                  expiresAt |-> onlineCalls[i].callNow + CACHE_DURATION]
            /\ installedBy' = 1
            /\ installedFor' = Endpoint(API_BASE_URL, NoApiKey)
       ELSE UNCHANGED << minimumAmountsCache, installedBy, installedFor >>
    /\ IF hookPc = "mounted"
       THEN SetOnlinePartCount(
              OnlinePartCountValue(onlineCalls[i].config, onlineCalls[i].props,
                  IF FetchSucceeded(r) THEN MinReturned(OrEmpty(r.data))
                  ELSE MinThrew))
       ELSE UNCHANGED << hookPc, hookProps, hookConfig, onlinePartCount,
                         debounceLeft, intervalLeft, isFirstFetch, fetchCalls,
                         fetchPending, fetchPartCount, timerCalls, exposed >>
    /\ UNCHANGED << now, pc, kind, args, callNow, ret, result, issued, issuedAt,
                    resp, clearPending, overlap, doneOrder >>
    /\ UNCHANGED << batchVars, routeVars, debounceVars >>

\* The i-th fetchOnlinePartCount call in flight was served from the live
\* cache entry; such calls continue in the order they were made.
OnlinePartCountFromCache(i) ==
    /\ i \in 1..Len(onlineCalls)
    /\ onlineCalls[i].mode = "cached"
    /\ \A j \in 1..(i - 1) : onlineCalls[j].mode # "cached"
    /\ onlineCalls' = WithoutCall(onlineCalls, i)
    /\ SetOnlinePartCount(onlineCalls[i].value)
    /\ UNCHANGED << cacheVars, batchVars, routeVars, debounceVars >>

\* The timeout of the debounced function fires: fetchRoute() runs.
DebounceFires ==
    /\ hookPc = "mounted"
    /\ debounceLeft # NoTimer
    /\ intervalLeft = NoTimer \/ debounceLeft <= intervalLeft
    /\ debounceLeft' = NoTimer
    /\ intervalLeft' = IF intervalLeft = NoTimer THEN NoTimer
                       ELSE intervalLeft - debounceLeft
    /\ CallFetchRoute(hookProps,
                      partCountMemo(hookConfig, hookProps, onlinePartCount),
                      isFirstFetch, fetchPending, exposed)
    /\ UNCHANGED << hookPc, hookProps, hookConfig, onlinePartCount, onlineCalls,
                    timerCalls >>
    /\ UNCHANGED << cacheVars, batchVars, routeVars, debounceVars >>

\* The interval fires: its callback calls debouncedFetchRoute(), which
\* clears the pending timeout and sets a new one.
IntervalFires ==
    /\ hookPc = "mounted"
    /\ intervalLeft # NoTimer
    /\ debounceLeft = NoTimer \/ intervalLeft <= debounceLeft
    /\ timerCalls < MaxTimerCalls
    /\ timerCalls' = timerCalls + 1
    /\ debounceLeft' = DEBOUNCE_WAIT
    /\ intervalLeft' = hookConfig.refreshInterval
    /\ UNCHANGED << hookPc, hookProps, hookConfig, onlinePartCount, onlineCalls,
                    isFirstFetch, fetchCalls, fetchPending, fetchPartCount,
                    exposed >>
    /\ UNCHANGED << cacheVars, batchVars, routeVars, debounceVars >>

\* swapService.fetchRoute of call k settles: fetchRoute sets the outputs
\* and isFirstFetch to true on a result, the error and isFirstFetch to
\* false on a rejection; when isFirstFetch turns true, the effect on it
\* calls fetchRoute() again.
FetchRouteSettles(k, outcome) ==
    /\ hookPc = "mounted"
    /\ \E c \in fetchPending :
          /\ c.id = k
          /\ OutcomePossible(c, outcome)
          /\ IF outcome # "rejected" /\ ~isFirstFetch
             THEN CallFetchRoute(hookProps,
                      partCountMemo(hookConfig, hookProps, onlinePartCount),
                      TRUE, fetchPending \ {c},
                      ResultOutputs(exposed, c, outcome = "degenerate"))
             ELSE /\ isFirstFetch' = (outcome # "rejected")
                  /\ fetchPending' = fetchPending \ {c}
                  /\ exposed' = IF outcome = "rejected"
                                THEN ErrorOutputs(exposed, c)
                                ELSE ResultOutputs(exposed, c, outcome = "degenerate")
                  /\ UNCHANGED << fetchCalls, fetchPartCount >>
    /\ UNCHANGED << hookPc, hookProps, hookConfig, onlinePartCount, onlineCalls,
                    debounceLeft, intervalLeft, timerCalls >>
    /\ UNCHANGED << cacheVars, batchVars, routeVars, debounceVars >>

\* The component unmounts: the cleanup clears the interval and cancels the
\* debounced call; pending threshold requests stay in flight.
HookUnmount ==
    /\ hookPc = "mounted"
    /\ hookPc' = "unmounted"
    /\ hookProps' = NoHookProps
    /\ hookConfig' = NoHookConfig
    /\ onlinePartCount' = NullPartCount
    /\ onlineCalls' = SelectSeq(onlineCalls, LAMBDA c : c.mode = "fetching")
    /\ debounceLeft' = NoTimer
    /\ intervalLeft' = NoTimer
    /\ isFirstFetch' = FALSE
    /\ fetchCalls' = 0
    /\ fetchPending' = {}
    /\ fetchPartCount' = 0
    /\ timerCalls' = 0
    /\ exposed' = NoOutputs
    /\ UNCHANGED << cacheVars, batchVars, routeVars, debounceVars >>

(***************************************************************************)
(* debounce(func, wait): the debounced function, its cancel, and the timer *)
(* it holds.  Time passes in steps while a timeout is pending and a        *)
(* timeout fires when its wait has passed.                                 *)
(***************************************************************************)
\* The bounds on the calls of one burst and on the runs and cancels logged.
MaxBurst == 2

MaxEvents == 2

DebounceArgs == { 1, 2 }

NoDebounceArgs == 0

\* The steps of the clock, in ms.
DebounceSteps == { 100, 200 }

\* A run of func, or a cancel, with the calls made since the one before.
DebounceEvent(k, a) == [kind |-> k, args |-> a, burst |-> debounceCalls, elapsed |-> debounceElapsed]

\* The debounced function leaving a pending timeout in place.
debouncedFn_NoRestart(a) ==
    /\ Len(debounceCalls) < MaxBurst
    /\ Len(debounceLog) < MaxEvents
    /\ debounceTimeout' = IF debounceTimeout = NoTimer THEN DEBOUNCE_WAIT
                          ELSE debounceTimeout
    /\ debounceArgs' = a
    /\ debounceCalls' = Append(debounceCalls, a)
    /\ debounceElapsed' = 0
    /\ UNCHANGED debounceLog
    /\ UNCHANGED << cacheVars, batchVars, routeVars, hookPc, hookProps,
                    hookConfig, onlinePartCount, onlineCalls, debounceLeft,
                    intervalLeft, isFirstFetch, fetchCalls, fetchPending,
                    fetchPartCount, timerCalls, exposed >>

\* debouncedFn(...args): clearTimeout(timeout), then
\* timeout = setTimeout(() => func(...args), wait).
debouncedFn(a) ==
    /\ Len(debounceCalls) < MaxBurst
    /\ Len(debounceLog) < MaxEvents
    /\ debounceTimeout' = DEBOUNCE_WAIT
    /\ debounceArgs' = a
    /\ debounceCalls' = Append(debounceCalls, a)
    /\ debounceElapsed' = 0
    /\ UNCHANGED debounceLog
    /\ UNCHANGED << cacheVars, batchVars, routeVars, hookPc, hookProps,
                    hookConfig, onlinePartCount, onlineCalls, debounceLeft,
                    intervalLeft, isFirstFetch, fetchCalls, fetchPending,
                    fetchPartCount, timerCalls, exposed >>

\* debouncedFn.cancel(): clearTimeout(timeout).
cancel ==
    /\ Len(debounceLog) < MaxEvents
    /\ debounceTimeout' = NoTimer
    /\ debounceArgs' = NoDebounceArgs
    /\ debounceCalls' = << >>
    /\ debounceElapsed' = 0
    /\ debounceLog' = Append(debounceLog, DebounceEvent("cancel", NoDebounceArgs))
    /\ UNCHANGED << cacheVars, batchVars, routeVars, hookPc, hookProps,
                    hookConfig, onlinePartCount, onlineCalls, debounceLeft,
                    intervalLeft, isFirstFetch, fetchCalls, fetchPending,
                    fetchPartCount, timerCalls, exposed >>

\* d ms pass while the timeout is pending and not yet due.
TimePasses(d) ==
    /\ debounceTimeout # NoTimer
    /\ d <= debounceTimeout
    /\ debounceTimeout' = debounceTimeout - d
    /\ debounceElapsed' = debounceElapsed + d
    /\ UNCHANGED << debounceArgs, debounceCalls, debounceLog >>
    /\ UNCHANGED << cacheVars, batchVars, routeVars, hookPc, hookProps,
                    hookConfig, onlinePartCount, onlineCalls, debounceLeft,
                    intervalLeft, isFirstFetch, fetchCalls, fetchPending,
                    fetchPartCount, timerCalls, exposed >>

\* The timeout is due: its callback runs func with the arguments of the
\* call that set it.
TimeoutFires ==
    /\ debounceTimeout = 0
    /\ debounceLog' = Append(debounceLog, DebounceEvent("run", debounceArgs))
    /\ debounceTimeout' = NoTimer
    /\ debounceArgs' = NoDebounceArgs
    /\ debounceCalls' = << >>
    /\ debounceElapsed' = 0
    /\ UNCHANGED << cacheVars, batchVars, routeVars, hookPc, hookProps,
                    hookConfig, onlinePartCount, onlineCalls, debounceLeft,
                    intervalLeft, isFirstFetch, fetchCalls, fetchPending,
                    fetchPartCount, timerCalls, exposed >>

(***************************************************************************)
(* Inputs.                                                                 *)
(***************************************************************************)
MaxPartCount == 3

PartCountInputs == 1..MaxPartCount

OfflineArgs ==
    { Args(s, d, << >>, c, n) :
        s \in TokenInputs, d \in TokenInputs, c \in ChainIds, n \in PartCountInputs }

\* Threshold payloads.  One record per token, as the endpoint returns them
\* for a network.
RECORDS_BOTH ==
    ArrayData(<< Item(toLowerCase(ADDR_NATIVE), << "1" >>),
                 Item(ADDR_USDCE, << "2" >>) >>)

\* The scenario of a single record: the other side's record is missing.
RECORDS_SRC_ONLY == ArrayData(<< Item(ADDR_NATIVE, << "1" >>) >>)

\* Records preceded by a null item.
RECORDS_NULL_FIRST ==
    ArrayData(<< NullItem, Item(ADDR_NATIVE, << "1" >>), Item(ADDR_USDCE, << "1" >>) >>)

\* Records followed by a null item.
RECORDS_NULL_LAST ==
    ArrayData(<< Item(ADDR_NATIVE, << "1" >>), Item(ADDR_USDCE, << "1" >>), NullItem >>)

\* A record without minimumAmount, and one without token.
RECORDS_FIELDS_MISSING ==
    ArrayData(<< ItemNoToken(<< "1" >>), Item(ADDR_NATIVE, << >>),
                 Item(ADDR_USDCE, << "1" >>) >>)

OnlineTokens ==
    { Token(ADDR_NATIVE), Token(toLowerCase(ADDR_USDCE)), Token(ADDR_MOCK), NullToken }

OnlineAmounts == { << "1" >>, << "2" >>, << "a", "b", "c" >> }

OnlineChains == { CHAIN_MAINNET, CHAIN_UNKNOWN }

OnlineFallbacks == { 3, 5 }

OnlineArgs ==
    { Args(s, d, amt, c, n) :
        s \in OnlineTokens, d \in OnlineTokens, amt \in OnlineAmounts,
        c \in OnlineChains, n \in OnlineFallbacks }

OnlineResponses ==
    { Rejected, TimedOut,
      Resolved("false", UndefinedData),
      Resolved("absent", ObjectData) }
    \cup { Resolved("true", d) :
             d \in { UndefinedData, ObjectData, RECORDS_BOTH, RECORDS_SRC_ONLY,
                     RECORDS_NULL_FIRST, RECORDS_NULL_LAST,
                     RECORDS_FIELDS_MISSING } }

CacheResponses ==
    { Rejected, TimedOut, Resolved("false", UndefinedData),
      Resolved("true", RECORDS_BOTH), Resolved("true", RECORDS_SRC_ONLY) }

\* Endpoints and credentials of direct getMinimumAmounts calls.
OTHER_API_BASE_URL == "https://api-staging.bitzy.app"

API_KEY == "authen-key-1"

EndpointInputs ==
    { MinArgs(u, k) : u \in { API_BASE_URL, OTHER_API_BASE_URL },
                      k \in { NoApiKey, API_KEY } }

\* Arguments and configs of the hook: a pair of high-value tokens, a pair
\* with a low-value token and a missing token; no amount, "0" and an
\* amount; the default, a small and a zero defaultPartCount; no, a
\* positive, a zero and a negative forcePartCount.
HookPairs ==
    { << Token(ADDR_NATIVE), Token(toLowerCase(ADDR_USDCE)) >>,
      << Token(ADDR_NATIVE), Token(ADDR_MOCK) >>,
      << NullToken, Token(ADDR_USDCE) >> }

HookAmounts == { << >>, << "0" >>, << "2" >> }

HookPropsInputs ==
    { HookProps(p[1], p[2], amt, c) :
        p \in HookPairs, amt \in HookAmounts, c \in { CHAIN_MAINNET, CHAIN_UNKNOWN } }

ForcePartCountInputs ==
    { NullPartCount, SomePartCount(MaxPartCount), SomePartCount(0),
      SomePartCount(-1) }

HookConfigInputs ==
    { UseSwapV3RoutesConfig(d, f, o, i) :
        d \in { 5, MaxPartCount, 0 }, f \in ForcePartCountInputs,
        o \in BOOLEAN, i \in { 0, DEFAULT_REFRESH_INTERVAL } }

HookThresholdResponses == { Rejected, Resolved("true", RECORDS_BOTH) }

\* Requests to fetchSwapRoute.
RouteAddresses ==
    { ADDR_NATIVE, toLowerCase(ADDR_NATIVE), ADDR_PBTC, toLowerCase(ADDR_PBTC),
      ADDR_USDCE }

RouteTokens ==
    { NullToken, TokenOn(<< >>, CHAIN_MAINNET) }
      \cup { TokenOn(a, CHAIN_MAINNET) : a \in RouteAddresses }
      \cup { TokenOn(a, c) : a \in { ADDR_NATIVE, ADDR_PBTC, ADDR_USDCE },
                             c \in { CHAIN_TESTNET, NoChainId } }

RouteChains == { CHAIN_MAINNET, CHAIN_UNKNOWN }

RouteAmounts ==
    { << "1", "0", "0" >>, << "7" >>, << "0" >>, << "-", "1" >>,
      << "a", "b", "c" >>, << >>, INFINITY }

\* An explicit partCount, a forcePartCount, neither, and online mode.
RouteModes ==
    { [partCount |-> 2, forcePartCount |-> 0, onlinePartCount |-> FALSE],
      [partCount |-> 0, forcePartCount |-> MaxPartCount, onlinePartCount |-> FALSE],
      [partCount |-> 0, forcePartCount |-> 0, onlinePartCount |-> FALSE],
      [partCount |-> 0, forcePartCount |-> 0, onlinePartCount |-> TRUE] }

\* Token pairs the amounts are varied on: a swap, a wrap, a missing token.
RoutePairs ==
    { << TokenOn(ADDR_NATIVE, CHAIN_MAINNET), TokenOn(ADDR_USDCE, CHAIN_MAINNET) >>,
      << TokenOn(ADDR_NATIVE, CHAIN_MAINNET), TokenOn(ADDR_PBTC, CHAIN_MAINNET) >>,
      << NullToken, TokenOn(ADDR_USDCE, CHAIN_MAINNET) >> }

\* Every token pair with a valid amount, and every amount on RoutePairs.
RouteInputs ==
    { SwapOptions(s, d, << "1", "0", "0" >>, c, m) :
        s \in RouteTokens, d \in RouteTokens, c \in RouteChains, m \in RouteModes }
      \cup { SwapOptions(p[1], p[2], amt, c, m) :
               p \in RoutePairs, amt \in RouteAmounts, c \in RouteChains,
               m \in RouteModes }

RouteThresholdResponses == { Rejected, Resolved("true", RECORDS_BOTH) }

\* The part counts a quote can be asked for.
RoutePartCounts == { 1, 2, MaxPartCount, DEFAULT_PART_COUNT }

QuoteInputs == UNION { QuotesFor(n) : n \in RoutePartCounts }

(***************************************************************************)
(* Specifications.                                                         *)
(***************************************************************************)
\* Concurrent callers of getMinimumAmounts, clear() and the clock.
Next ==
    \/ \E p \in Procs : Begin(p, "min", NoArgs)
    \/ \E p \in Procs : \E r \in CacheResponses : Response(p, r)
    \/ \E p \in Procs : Return(p)
    \/ clearMinimumAmountsCache
    \/ Tick

Spec == Init /\ [][Next]_vars

\* One caller of getPartCountOnline / getPartCountWithFallback at a time,
\* over the same cache.
NextOnline ==
    \/ \E a \in OnlineArgs : Begin(1, "online", a)
    \/ \E a \in OnlineArgs : Begin(1, "withFallback", a)
    \/ \E r \in OnlineResponses : Response(1, r)
    \/ Return(1)
    \/ clearMinimumAmountsCache

SpecOnline == Init /\ [][NextOnline]_vars

\* getPartCountOffline over its inputs.
NextOffline ==
    \/ \E a \in OfflineArgs : CallOffline(1, a)
    \/ Return(1)

SpecOffline == Init /\ [][NextOffline]_vars

\* One batch at a time, its items settling in any order.
NextBatch ==
    \/ \E reqs \in BatchInputs : fetchBatchSwapRoutes(reqs)
    \/ \E i \in 1..MaxBatch : \E out \in QuoteOutputs : ItemFulfilled(i, out)
    \/ \E i \in 1..MaxBatch : \E e \in ServiceErrors : ItemRejected(i, e)
    \/ BatchSettle
    \/ BatchReturn

SpecBatch == Init /\ [][NextBatch]_vars

\* The same, with every external call eventually answered (resolved,
\* failed or timed out) and the batch's continuation eventually run.
ItemSettles(i) ==
    \/ \E out \in QuoteOutputs : ItemFulfilled(i, out)
    \/ \E e \in ServiceErrors : ItemRejected(i, e)

\* Batches that differ in their chains only: the amount plays no part in
\* whether a batch resolves.
FairBatchInputs ==
    { reqs \in BatchInputs : \A i \in 1..Len(reqs) : reqs[i].amountIn = << "1" >> }

NextBatchFair ==
    \/ \E reqs \in FairBatchInputs : fetchBatchSwapRoutes(reqs)
    \/ \E i \in 1..MaxBatch : ItemSettles(i)
    \/ BatchSettle
    \/ BatchReturn

SpecBatchFair ==
    /\ Init
    /\ [][NextBatchFair]_vars
    /\ \A i \in 1..MaxBatch : WF_vars(ItemSettles(i))
    /\ WF_vars(BatchSettle)

\* getMinimumAmounts called with varying apiBaseUrl and apiKey, one call at
\* a time, with clear() and the clock.
NextEndpoint ==
    \/ \E a \in EndpointInputs : Begin(1, "min", a)
    \/ \E r \in CacheResponses : Response(1, r)
    \/ Return(1)
    \/ clearMinimumAmountsCache
    \/ Tick

SpecEndpoint == Init /\ [][NextEndpoint]_vars

\* The hook mounted and unmounted, its timers and its promises.
NextHook ==
    \/ \E props \in HookPropsInputs : \E config \in HookConfigInputs :
          useSwapV3Routes(props, config)
    \/ \E i \in 1..MaxOnlineCalls : \E r \in HookThresholdResponses :
          OnlinePartCountSettles(i, r)
    \/ \E i \in 1..MaxOnlineCalls : OnlinePartCountFromCache(i)
    \/ DebounceFires
    \/ IntervalFires
    \/ \E k \in 1..MaxFetches : \E outcome \in FetchOutcomes :
          FetchRouteSettles(k, outcome)
    \/ HookUnmount

SpecHook == Init /\ [][NextHook]_vars

\* A debounced function called, cancelled and left to run.
NextDebounce ==
    \/ \E a \in DebounceArgs : debouncedFn(a)
    \/ cancel
    \/ \E d \in DebounceSteps : TimePasses(d)
    \/ TimeoutFires

SpecDebounce == Init /\ [][NextDebounce]_vars

\* The hook rendered again by its parent while its requests are in flight:
\* the user edits the amount, picks another token, or online mode is
\* switched.  The pairs are a wrap and a swap to a low-value token.
RenderPairs ==
    { << Token(ADDR_NATIVE), Token(ADDR_PBTC) >>,
      << Token(ADDR_NATIVE), Token(ADDR_MOCK) >> }

RenderPropsInputs ==
    { HookProps(p[1], p[2], amt, CHAIN_MAINNET) :
        p \in RenderPairs, amt \in { << >>, << "2" >> } }

RenderConfig(online) ==
    UseSwapV3RoutesConfig(5, NullPartCount, online, DEFAULT_REFRESH_INTERVAL)

\* Online mode with each of these arguments, and online mode off.
RenderInputs ==
    { << props, RenderConfig(TRUE) >> : props \in RenderPropsInputs }
      \cup { << HookProps(Token(ADDR_NATIVE), Token(ADDR_MOCK), << "2" >>,
                          CHAIN_MAINNET), RenderConfig(FALSE) >> }

NextHookRender ==
    \/ \E in \in RenderInputs : useSwapV3Routes(in[1], in[2])
    \/ \E in \in RenderInputs : HookRerender(in[1], in[2])
    \/ \E i \in 1..MaxOnlineCalls : \E r \in HookThresholdResponses :
          OnlinePartCountSettles(i, r)
    \/ \E i \in 1..MaxOnlineCalls : OnlinePartCountFromCache(i)
    \/ DebounceFires
    \/ IntervalFires
    \/ \E k \in 1..MaxFetches : \E outcome \in FetchOutcomes :
          FetchRouteSettles(k, outcome)
    \/ HookUnmount

SpecHookRender == Init /\ [][NextHookRender]_vars

\* One fetchSwapRoute call at a time, over the threshold cache.
NextRoute ==
    \/ \E o \in RouteInputs : fetchSwapRoute(o)
    \/ \E r \in RouteThresholdResponses : RouteThresholdResponse(r)
    \/ \E q \in QuoteInputs : RouteQuoteResponse(q)
    \/ RouteReturn

SpecRoute == Init /\ [][NextRoute]_vars

(***************************************************************************)
(* Reference notions the properties are stated with.                       *)
(***************************************************************************)
CasePairs ==
    { << "a", "A" >>, << "b", "B" >>, << "c", "C" >>, << "d", "D" >>,
      << "e", "E" >>, << "f", "F" >>, << "x", "X" >> }

SameLetter(c, d) == c = d \/ << c, d >> \in CasePairs \/ << d, c >> \in CasePairs

\* Two strings that differ at most in letter case.
EqIgnoreCase(s, t) ==
    Len(s) = Len(t) /\ \A i \in 1..Len(s) : SameLetter(s[i], t[i])

\* The token's address is one of HIGH_VALUE_TOKENS[chainId], letter case
\* aside.
Listed(token, chainId) ==
    /\ ~token.isNull
    /\ chainId \in DOMAIN HIGH_VALUE_TOKENS
    /\ \E i \in 1..Len(HIGH_VALUE_TOKENS[chainId]) :
          EqIgnoreCase(HIGH_VALUE_TOKENS[chainId][i], token.address)

OfflineOf(a) == getPartCountOffline(a.srcToken, a.dstToken, a.chainId, a.partCount)

InOnline(p) == kind[p] \in {"online", "withFallback"}

\* The records hold an entry for the token (address compared without
\* regard to case) ...
RecordsOf(data, token) ==
    IF data.shape # "array" \/ token.isNull THEN {}
    ELSE { i \in 1..Len(data.items) :
             /\ ~data.items[i].isNull
             /\ data.items[i].hasToken
             /\ EqIgnoreCase(data.items[i].token, token.address) }

\* ... and amountIn is at least / below that entry's minimumAmount.
Meets(amountIn, item) == gte(BigNumber(amountIn), BigNumber(item.minimumAmount))

Below(amountIn, item) ==
    /\ ~BigNumber(amountIn).nan
    /\ ~BigNumber(item.minimumAmount).nan
    /\ BigNumber(amountIn).v < BigNumber(item.minimumAmount).v

\* Every item of the payload is a record.
WellFormed(data) ==
    data.shape = "array" /\ \A i \in 1..Len(data.items) : ~data.items[i].isNull

\* The fetch did not deliver threshold records: the promise rejected or
\* timed out, the body reports no success, or its data is no array.
FetchFailed(r) ==
    \/ r.settle \in {"reject", "timeout"}
    \/ r.settle = "resolve" /\ r.success # "true"
    \/ r.settle = "resolve" /\ r.data.shape = "object"

\* The data handed to the lookup is no array, or an array that starts with
\* an item that is no record.
Malformed(data) ==
    \/ data.shape # "array"
    \/ Len(data.items) > 0 /\ data.items[1].isNull

\* Caller p goes from idle into a call in this step.
Starts(p) == pc[p] = "idle" /\ pc'[p] # "idle"

\* Some request is sent in this step.
RequestSent == \E q \in Procs : pc[q] # "fetching" /\ pc'[q] = "fetching"

(***************************************************************************)
(* C1.  getPartCountOffline(src, dst, chainId, D) returns D when both      *)
(* addresses, compared without regard to letter case, are in               *)
(* HIGH_VALUE_TOKENS[chainId], and 1 in every other case (one or no        *)
(* high-value token, a null token, an unlisted chain).  The right-hand     *)
(* side depends on the addresses only up to letter case, so two spellings  *)
(* of one address classify identically.                                    *)
(***************************************************************************)
C1_OfflineDecision ==
    \A p \in Procs :
        (pc[p] = "returned" /\ kind[p] = "offline") =>
            result[p] =
                IF Listed(args[p].srcToken, args[p].chainId)
                   /\ Listed(args[p].dstToken, args[p].chainId)
                THEN args[p].partCount
                ELSE 1

\* A high-value pair spelled in upper and in lower case gets D.
C1_Witness ==
    \E p \in Procs :
        /\ pc[p] = "returned" /\ kind[p] = "offline"
        /\ args[p].srcToken = Token(toUpperCase(ADDR_PBTC))
        /\ args[p].dstToken = Token(toLowerCase(ADDR_USDC))
        /\ args[p].chainId = CHAIN_MAINNET
        /\ args[p].partCount = 3
        /\ result[p] = 3

C3_ThresholdMetGivesFive ==
    \A p \in Procs :
        (/\ InOnline(p) /\ pc[p] = "returned"
         /\ WellFormed(ret[p])
         /\ \E i \in RecordsOf(ret[p], args[p].srcToken) :
               Meets(args[p].amountIn, ret[p].items[i])
         /\ \E j \in RecordsOf(ret[p], args[p].dstToken) :
               Meets(args[p].amountIn, ret[p].items[j]))
        => result[p] = 5

\* Both thresholds met with fallbackPartCount = 3, on a chain where the
\* offline decision would give 1.
C3_Witness ==
    \E p \in Procs :
        /\ kind[p] = "online" /\ pc[p] = "returned"
        /\ ret[p] = RECORDS_BOTH
        /\ args[p].srcToken = Token(ADDR_NATIVE)
        /\ args[p].dstToken = Token(toLowerCase(ADDR_USDCE))
        /\ args[p].amountIn = << "2" >>
        /\ args[p].partCount = 3
        /\ args[p].chainId = CHAIN_UNKNOWN
        /\ result[p] = 5

(***************************************************************************)
(* C4.  When the threshold fetch succeeds but the record of either token   *)
(* is missing, or amountIn is below the minimumAmount of either token's    *)
(* record, getPartCountOnline returns                                      *)
(* getPartCountOffline(src, dst, chainId, fallbackPartCount):              *)
(* fallbackPartCount if both tokens are high-value on chainId, else 1.     *)
(***************************************************************************)
C4_ThresholdNotMetGivesOffline ==
    \A p \in Procs :
        (/\ InOnline(p) /\ pc[p] = "returned"
         /\ ret[p].shape = "array"
         /\ ~FetchFailed(resp[p])
         /\ \/ RecordsOf(ret[p], args[p].srcToken) = {}
            \/ RecordsOf(ret[p], args[p].dstToken) = {}
            \/ \E i \in RecordsOf(ret[p], args[p].srcToken) :
                  Below(args[p].amountIn, ret[p].items[i])
            \/ \E j \in RecordsOf(ret[p], args[p].dstToken) :
                  Below(args[p].amountIn, ret[p].items[j]))
        => result[p] =
              IF Listed(args[p].srcToken, args[p].chainId)
                 /\ Listed(args[p].dstToken, args[p].chainId)
              THEN args[p].partCount
              ELSE 1

\* The record of the destination token is missing; the pair is high-value
\* and the caller's fallback of 3 is returned.
C4_Witness ==
    \E p \in Procs :
        /\ kind[p] = "online" /\ pc[p] = "returned"
        /\ resp[p] = Resolved("true", RECORDS_SRC_ONLY)
        /\ args[p].srcToken = Token(ADDR_NATIVE)
        /\ args[p].dstToken = Token(toLowerCase(ADDR_USDCE))
        /\ args[p].amountIn = << "2" >>
        /\ args[p].chainId = CHAIN_MAINNET
        /\ args[p].partCount = 3
        /\ result[p] = 3

(***************************************************************************)
(* C5.  A getMinimumAmounts call made while an entry exists and            *)
(* now < expiresAt (equally: less than 5 minutes after the entry's fetch   *)
(* time) returns that entry's records and sends no request; so of a        *)
(* successful fetch and a later call inside the window only the first      *)
(* sends a request.                                                        *)
(***************************************************************************)
C5_LiveEntryServed ==
    [][ \A p \in Procs :
          (/\ Starts(p)
           /\ ~minimumAmountsCache.isNull
           /\ \/ now < minimumAmountsCache.expiresAt
              \/ now < minimumAmountsCache.timestamp + CACHE_DURATION)
          => /\ pc'[p] = "returned"
             /\ ret'[p] = minimumAmountsCache.data
             /\ ~issued'[p]
             /\ ~RequestSent ]_vars

\* One caller fetched the records and still holds them; the other was
\* served the same records later, inside the window, without a request.
C5_Witness ==
    \E p \in Procs : \E q \in Procs \ {p} :
        /\ pc[p] = "returned" /\ issued[p] /\ installedBy = p
        /\ pc[q] = "returned" /\ ~issued[q]
        /\ ret[q] = RECORDS_BOTH /\ ret[p] = RECORDS_BOTH
        /\ now = minimumAmountsCache.timestamp + TICK

(***************************************************************************)
(* C6.  After clearMinimumAmountsCache() has returned, the next            *)
(* getMinimumAmounts call sends a new request, whatever the time and       *)
(* whatever the interleaving of calls and clears.                          *)
(***************************************************************************)
C6_ClearForcesFetch ==
    [][ \A p \in Procs : (Starts(p) /\ clearPending) => issued'[p] ]_vars

(***************************************************************************)
(* C7.  An entry is no longer served once now >= expiresAt: a call made    *)
(* then sends a new request instead of returning the cached records; and   *)
(* the expiresAt of an entry is 5 minutes after its fetch time, the time   *)
(* its request was sent.                                                   *)
(***************************************************************************)
C7_ExpiredEntryNotServed ==
    [][ \A p \in Procs :
          /\ (/\ Starts(p)
              /\ ~minimumAmountsCache.isNull
              /\ now >= minimumAmountsCache.expiresAt)
             => (pc'[p] = "fetching" /\ issued'[p])
          /\ (pc[p] = "fetching" /\ pc'[p] = "returned")
             => /\ minimumAmountsCache'.timestamp = issuedAt[p]
                /\ minimumAmountsCache'.expiresAt = issuedAt[p] + CACHE_DURATION ]_vars

\* A request is pending that was sent exactly at the expiresAt of the entry
\* still in the cache.
C7_Witness ==
    \E p \in Procs :
        /\ pc[p] = "fetching"
        /\ ~minimumAmountsCache.isNull
        /\ issuedAt[p] = minimumAmountsCache.expiresAt

\* Caller p's call fetched the records and returned them.
Succeeded(p) ==
    pc[p] = "returned" /\ resp[p].settle = "resolve" /\ resp[p].success = "true"

\* p's fetch completed after q's.
CompletedAfter(p, q) ==
    \E i \in 1..Len(doneOrder) : \E j \in 1..Len(doneOrder) :
        doneOrder[i] = q /\ doneOrder[j] = p /\ i < j

(***************************************************************************)
(* C8.  Two getMinimumAmounts calls that overlap while the entry is absent *)
(* or expired each send their own request and each return the records of   *)
(* their own response; the entry left in the cache is the one written by   *)
(* the call whose fetch completed last.                                    *)
(***************************************************************************)
C8_LastWriteWins ==
    \A p \in Procs : \A q \in Procs \ {p} :
        (/\ Succeeded(p) /\ Succeeded(q)
         /\ q \in overlap[p]
         /\ CompletedAfter(p, q)
         /\ installedBy \in {p, q})
        => /\ issued[p] /\ issued[q]
           /\ ret[p] = OrEmpty(resp[p].data)
           /\ ret[q] = OrEmpty(resp[q].data)
           /\ installedBy = p
           /\ minimumAmountsCache.data = OrEmpty(resp[p].data)

\* The two overlapping calls got different records; the cache holds those
\* of the later completion.
C8_Witness ==
    \E p \in Procs : \E q \in Procs \ {p} :
        /\ Succeeded(p) /\ Succeeded(q)
        /\ q \in overlap[p]
        /\ CompletedAfter(p, q)
        /\ resp[p] = Resolved("true", RECORDS_SRC_ONLY)
        /\ resp[q] = Resolved("true", RECORDS_BOTH)
        /\ ret[q] = RECORDS_BOTH
        /\ minimumAmountsCache.data = RECORDS_SRC_ONLY

(***************************************************************************)
(* C9.  fetchBatchSwapRoutes resolves with an array as long as the request *)
(* array, and result i is the result of request i, whatever the order in   *)
(* which the batchItems settle and also when every item fails.                  *)
(***************************************************************************)
C9_BatchIndexAligned ==
    batchPc = "resolved" =>
        /\ Len(batchResult) = Len(batchRequests)
        /\ \A i \in 1..Len(batchResult) :
              /\ batchResult[i].success = (batchItems[i].pc = "fulfilled")
              /\ batchResult[i].success =>
                    batchResult[i].data.request = batchRequests[i]
              /\ (batchRequests[i].chainId \notin SupportedChains) =>
                    batchResult[i].error = UnsupportedNetwork(batchRequests[i].chainId)

\* Two different requests on a supported chain, the second settled first.
C9_Witness ==
    /\ batchPc = "resolved"
    /\ Len(batchRequests) = 2
    /\ batchRequests[1] # batchRequests[2]
    /\ settleOrder = << 2, 1 >>
    /\ batchResult[1].success /\ batchResult[2].success
    /\ batchResult[1].data.request = batchRequests[1]
    /\ batchResult[2].data.request = batchRequests[2]

(***************************************************************************)
(* C10.  A failing item is reported as {success: false, error: message}    *)
(* at its own index and does not keep a sibling from completing: the batch *)
(* never rejects, and every item whose own fetchSwapRoute succeeded is     *)
(* reported as {success: true, data: its SwapResult}, wherever the failing *)
(* batchItems are.                                                              *)
(***************************************************************************)
C10_BatchIsolatesFailures ==
    /\ batchPc # "rejected"
    /\ batchPc = "resolved" =>
          \A i \in 1..Len(batchItems) :
              /\ batchItems[i].pc = "fulfilled" =>
                    batchResult[i] =
                        [success |-> TRUE, data |-> batchItems[i].data, error |-> NoError]
              /\ batchItems[i].pc = "rejected" =>
                    batchResult[i] =
                        [success |-> FALSE, data |-> NoSwapResult,
                         error |-> batchItems[i].error]

\* The unsupported chain first, a succeeding request second (the test's
\* batch), and a failing service call third.
C10_Witness ==
    /\ batchPc = "resolved"
    /\ Len(batchRequests) = 3
    /\ batchRequests[1].chainId = CHAIN_UNKNOWN
    /\ batchResult[1] = [success |-> FALSE, data |-> NoSwapResult,
                         error |-> UnsupportedNetwork(CHAIN_UNKNOWN)]
    /\ batchResult[2].success
    /\ batchResult[2].data = SwapResult(batchRequests[2], 10)
    /\ ~batchResult[3].success
    /\ batchResult[3].error \in ServiceErrors


(***************************************************************************)
(* Notions the fetchSwapRoute properties are stated with.  They are        *)
(* written on the request, without the utilities of the code.              *)
(***************************************************************************)
RouteCalled == routePc # "idle"

Supported(o) == o.chainId \in DOMAIN CONTRACT_ADDRESSES

BothTokens(o) == ~o.srcToken.isNull /\ ~o.dstToken.isNull

\* The kind of pair a request is, by its addresses read without case.
PairKind(o) ==
    LET config == CONTRACT_ADDRESSES[o.chainId]
    IN  IF /\ EqIgnoreCase(o.srcToken.address, config.nativeAddress)
           /\ EqIgnoreCase(o.dstToken.address, config.wrappedAddress)
        THEN "wrap"
        ELSE IF /\ EqIgnoreCase(o.srcToken.address, config.wrappedAddress)
                /\ EqIgnoreCase(o.dstToken.address, config.nativeAddress)
        THEN "unwrap"
        ELSE "none"

IsWrapRequest(o) == Supported(o) /\ BothTokens(o) /\ PairKind(o) # "none"

\* A token or its address is missing.
TokenMissing(o) ==
    \/ ~BothTokens(o)
    \/ o.srcToken.address = << >>
    \/ o.dstToken.address = << >>

SameAddress(o) == BothTokens(o) /\ o.srcToken.address = o.dstToken.address

ChainIdsDiffer(o) == BothTokens(o) /\ o.srcToken.chainId # o.dstToken.chainId

\* Amount strings by their characters.
IsDecimal(s) == IsDigits(s) \/ (Len(s) > 1 /\ s[1] = "-" /\ IsDigits(Tail(s)))

NonFinite(s) == s = INFINITY \/ s = << "-" >> \o INFINITY

NonNumeric(s) == ~IsDecimal(s) /\ ~NonFinite(s)

ZeroOrNegative(s) ==
    IsDecimal(s) /\ (s[1] = "-" \/ \A i \in 1..Len(s) : s[i] = "0")

BadAmount(s) == NonNumeric(s) \/ ZeroOrNegative(s) \/ NonFinite(s)

FailedValidation == routePc = "threw" /\ routeError \in ValidationErrors

NothingSent == quoteRequests = 0 /\ thresholdRequests = 0

(***************************************************************************)
(* C11.  For a chainId absent from the contract address table,             *)
(* fetchSwapRoute fails with the error "Unsupported network: <chainId>"    *)
(* and returns no SwapResult, whatever the tokens are, a native/wrapped    *)
(* pair included.                                                          *)
(***************************************************************************)
C11_UnsupportedNetworkFails ==
    (RouteCalled /\ ~Supported(routeOptions))
        => /\ routePc = "threw"
           /\ routeError = << "Unsupported network: ", routeOptions.chainId >>
           /\ routeResult.isNull
           /\ NothingSent

\* The tests' request: wrapped to native on chain 9999.
C11_Witness ==
    /\ routePc = "threw"
    /\ routeOptions.chainId = CHAIN_UNKNOWN
    /\ routeOptions.srcToken = TokenOn(ADDR_PBTC, CHAIN_MAINNET)
    /\ routeOptions.dstToken = TokenOn(ADDR_NATIVE, CHAIN_MAINNET)
    /\ routeError = UnsupportedNetwork(CHAIN_UNKNOWN)

C14_SplitSumsToAmountIn ==
    ( /\ routePc = "returned"
      /\ routeResult.isWrap = "none"
      /\ SumSeq(routeQuote.distributions) = 100 )
        => SumSeq(routeResult.amountInParts) = DigitsValue(routeOptions.amountIn)

\* 7 split 50/50: 3 and 4, the half lost to rounding on the last part.
C14_Witness ==
    /\ routePc = "returned"
    /\ routeOptions.amountIn = << "7" >>
    /\ routeResult.distributions = << 50, 50 >>
    /\ routeResult.amountInParts = << 3, 4 >>

(***************************************************************************)
(* C15.  Every SwapResult returned has as many routes as distributions,    *)
(* amountOutRoutes and amountInParts; when isWrap is set all four are      *)
(* empty and amountOutBN equals amountIn.                                  *)
(***************************************************************************)
C15_ResultShape ==
    routePc = "returned"
        => /\ Len(routeResult.routes) = Len(routeResult.distributions)
           /\ Len(routeResult.routes) = Len(routeResult.amountOutRoutes)
           /\ Len(routeResult.routes) = Len(routeResult.amountInParts)
           /\ routeResult.isWrap # "none"
                => /\ Len(routeResult.routes) = 0
                   /\ routeResult.amountOutBN = DigitsValue(routeOptions.amountIn)

C15_Witness ==
    /\ routePc = "returned"
    /\ routeResult.isWrap = "none"
    /\ Len(routeResult.routes) = DEFAULT_PART_COUNT
    /\ Len(routeResult.amountInParts) = DEFAULT_PART_COUNT

(***************************************************************************)
(* C16.  When the quoting service answers, fetchSwapRoute returns a        *)
(* result and does not fail; its isAmountOutError is true when the answer  *)
(* has no route, a total output that is not positive, or a part whose      *)
(* route has no hop, and false otherwise.                                  *)
(***************************************************************************)
C16_AmountOutErrorFlag ==
    routeQuote.settle = "resolve"
        => /\ routePc = "returned"
           /\ routeResult.isAmountOutError
                <=> \/ Len(routeQuote.routes) = 0
                    \/ routeQuote.amountOut <= 0
                    \/ \E i \in 1..Len(routeQuote.routes) : routeQuote.routes[i] = 0

\* Routes and a positive total, but one part without a path.
C16_Witness ==
    /\ routePc = "returned"
    /\ routeResult.isAmountOutError
    /\ Len(routeResult.routes) > 1
    /\ routeResult.amountOutBN > 0
    /\ \E i \in 1..Len(routeResult.routes) : routeResult.routes[i] = 0

(***************************************************************************)
(* C17.  On a supported chain fetchSwapRoute fails with a validation       *)
(* error, returns no result and sends no request when a token is missing,  *)
(* both tokens have the same address, the two tokens' chainId fields       *)
(* differ, or amountIn is non-numeric, zero, negative or non-finite, and   *)
(* in no other case.                                                       *)
(***************************************************************************)
C17_ValidationRejects ==
    (RouteCalled /\ Supported(routeOptions))
        => /\ FailedValidation
                <=> \/ TokenMissing(routeOptions)
                    \/ SameAddress(routeOptions)
                    \/ ChainIdsDiffer(routeOptions)
                    \/ BadAmount(routeOptions.amountIn)
           /\ FailedValidation => (routeResult.isNull /\ NothingSent)

\* Two present tokens with different addresses and a valid amount, rejected
\* for their chainId fields.
C17_Witness ==
    /\ FailedValidation
    /\ Supported(routeOptions)
    /\ ChainIdsDiffer(routeOptions)
    /\ ~TokenMissing(routeOptions)
    /\ ~SameAddress(routeOptions)
    /\ ~BadAmount(routeOptions.amountIn)

\* C17 as stated: validation fails in the listed cases and only in them.
C17_Original ==
    (RouteCalled /\ Supported(routeOptions))
        => /\ FailedValidation
                <=> \/ TokenMissing(routeOptions)
                    \/ SameAddress(routeOptions)
                    \/ BadAmount(routeOptions.amountIn)
           /\ FailedValidation => (routeResult.isNull /\ NothingSent)

(***************************************************************************)
(* C18.  A request whose two token addresses are equal without regard to   *)
(* letter case is rejected by validation as identical tokens.              *)
(***************************************************************************)
C18_SameAddressAnyCaseRejected ==
    ( /\ RouteCalled
      /\ Supported(routeOptions)
      /\ BothTokens(routeOptions)
      /\ routeOptions.srcToken.address # << >>
      /\ EqIgnoreCase(routeOptions.srcToken.address, routeOptions.dstToken.address) )
        => (FailedValidation /\ routeError = InvalidTokens)

(***************************************************************************)
(* C19.  A request in which srcToken.chainId or dstToken.chainId differs   *)
(* from the request's chainId, the two agreeing with each other or both    *)
(* undefined included, is rejected with a validation error.                *)
(***************************************************************************)
C19_TokenChainMustMatchRequest ==
    ( /\ RouteCalled
      /\ Supported(routeOptions)
      /\ BothTokens(routeOptions)
      /\ \/ routeOptions.srcToken.chainId # routeOptions.chainId
         \/ routeOptions.dstToken.chainId # routeOptions.chainId )
        => FailedValidation

(***************************************************************************)
(* C20.  For a chainId that has no HIGH_VALUE_TOKENS entry, part-count     *)
(* resolution returns 1 whatever the token addresses are, through          *)
(* getPartCountOffline and through getPartCountOnline /                    *)
(* getPartCountWithFallback alike.                                         *)
(***************************************************************************)
C20_UnknownChainGivesOne ==
    \A p \in Procs :
        ( /\ pc[p] = "returned"
          /\ kind[p] \in {"offline", "online", "withFallback"}
          /\ args[p].chainId \notin DOMAIN HIGH_VALUE_TOKENS )
            => result[p] = 1

(***************************************************************************)
(* C24.  When the threshold request of a getPartCountWithFallback call     *)
(* fails (the promise rejects or times out, or the body reports no         *)
(* success), the call returns the caller's fallbackPartCount, whatever     *)
(* the two tokens are.                                                     *)
(***************************************************************************)
C24_FailureGivesFallback ==
    \A p \in Procs :
        ( /\ pc[p] = "returned"
          /\ kind[p] = "withFallback"
          /\ issued[p]
          /\ \/ resp[p].settle \in {"reject", "timeout"}
             \/ resp[p].settle = "resolve" /\ resp[p].success # "true" )
            => result[p] = args[p].partCount

(***************************************************************************)
(* C25.  The step in which the threshold request of a getMinimumAmounts    *)
(* call fails (the promise rejects or times out, or the body has           *)
(* success = false) makes the call reject and leaves the cache as it was:  *)
(* no entry is installed, and an entry that is there, expired or not, is   *)
(* neither modified nor removed.                                           *)
(***************************************************************************)
C25_FailedFetchKeepsCache ==
    [][ \A p \in Procs :
          ( /\ pc[p] = "fetching"
            /\ pc'[p] # "fetching"
            /\ kind[p] = "min"
            /\ \/ resp'[p].settle \in {"reject", "timeout"}
               \/ resp'[p].settle = "resolve" /\ resp'[p].success = "false" )
              => /\ pc'[p] = "threw"
                 /\ minimumAmountsCache' = minimumAmountsCache ]_vars

\* A getMinimumAmounts call whose request timed out has rejected while an
\* expired entry is in the cache.
C25_Witness ==
    \E p \in Procs :
        /\ pc[p] = "threw"
        /\ kind[p] = "min"
        /\ resp[p].settle = "timeout"
        /\ ~minimumAmountsCache.isNull
        /\ now >= minimumAmountsCache.expiresAt

(***************************************************************************)
(* C28.  In every reachable state the threshold cache is null or one       *)
(* entry written whole by one getMinimumAmounts call: expiresAt is         *)
(* timestamp + 5 minutes, the timestamp is a clock value not after now,    *)
(* and the records are those of the response of the call that wrote the    *)
(* entry last.  No state mixes the fields of two fetches.                  *)
(***************************************************************************)
C28_EntryWrittenWhole ==
    \/ minimumAmountsCache = NullCache
    \/ /\ ~minimumAmountsCache.isNull
       /\ minimumAmountsCache.expiresAt
             = minimumAmountsCache.timestamp + 5 * 60 * 1000
       /\ minimumAmountsCache.timestamp <= now
       /\ installedBy \in Procs
       /\ Succeeded(installedBy)
             => minimumAmountsCache.data = OrEmpty(resp[installedBy].data)

\* Two calls fetched at different clock values with different records, and
\* the second response overwrote the entry of the first.
C28_Witness ==
    \E p \in Procs : \E q \in Procs \ {p} :
        /\ Succeeded(p) /\ Succeeded(q)
        /\ doneOrder = << q, p >>
        /\ resp[p].data # resp[q].data
        /\ installedBy = p
        /\ minimumAmountsCache.timestamp > 0
        /\ minimumAmountsCache.data = resp[p].data

(***************************************************************************)
(* C30.  The online lookup matches records by token address only: when a   *)
(* getPartCountOnline call has returned on records that hold an entry for  *)
(* both token addresses with amountIn at least both minimums, it returned  *)
(* 5, and getPartCountOnline gives 5 for the same tokens, amount, fallback  *)
(* and records on every chainId: one that lists both tokens, one that      *)
(* lists neither, and one without registry entry.                          *)
(***************************************************************************)
C30_LookupIgnoresChain ==
    \A p \in Procs :
        ( /\ kind[p] = "online" /\ pc[p] = "returned"
          /\ WellFormed(ret[p])
          /\ \E i \in RecordsOf(ret[p], args[p].srcToken) :
                \A k \in RecordsOf(ret[p], args[p].srcToken) :
                    i <= k /\ Meets(args[p].amountIn, ret[p].items[i])
          /\ \E j \in RecordsOf(ret[p], args[p].dstToken) :
                \A k \in RecordsOf(ret[p], args[p].dstToken) :
                    j <= k /\ Meets(args[p].amountIn, ret[p].items[j]) )
            => /\ result[p] = 5
               /\ \A c \in ChainIds :
                     getPartCountOnline([args[p] EXCEPT !.chainId = c],
                                        MinReturned(ret[p])) = Value(5)

\* Both thresholds met by a token that chain 3636 does not list, on the
\* chain without registry entry.
C30_Witness ==
    \E p \in Procs :
        /\ kind[p] = "online" /\ pc[p] = "returned"
        /\ ret[p] = RECORDS_BOTH
        /\ args[p].srcToken = Token(toLowerCase(ADDR_USDCE))
        /\ args[p].dstToken = Token(toLowerCase(ADDR_USDCE))
        /\ args[p].amountIn = << "2" >>
        /\ args[p].chainId = CHAIN_UNKNOWN
        /\ ~Listed(args[p].srcToken, CHAIN_TESTNET)
        /\ Listed(args[p].srcToken, CHAIN_MAINNET)
        /\ result[p] = 5

(***************************************************************************)
(* C29.  The cache is one entry, not keyed by endpoint or credentials:     *)
(* a getMinimumAmounts call that starts while a live entry exists, with an *)
(* apiBaseUrl or apiKey other than those of the call that populated the    *)
(* entry, returns the cached records in the same step, sends no request    *)
(* and leaves the entry as it is.                                          *)
(***************************************************************************)
C29_EntryNotKeyedByEndpoint ==
    [][ \A p \in Procs :
          ( /\ Starts(p)
            /\ kind'[p] = "min"
            /\ ~minimumAmountsCache.isNull
            /\ now < minimumAmountsCache.expiresAt
            /\ Endpoint(args'[p].apiBaseUrl, args'[p].apiKey) # installedFor )
              => /\ pc'[p] = "returned"
                 /\ ret'[p] = minimumAmountsCache.data
                 /\ ~issued'[p]
                 /\ ~RequestSent
                 /\ minimumAmountsCache' = minimumAmountsCache ]_vars

\* A call for the other base URL with an apiKey was served the records a
\* call for the default URL without key had fetched.
C29_Witness ==
    /\ pc[1] = "returned"
    /\ kind[1] = "min"
    /\ ~issued[1]
    /\ args[1] = MinArgs(OTHER_API_BASE_URL, API_KEY)
    /\ installedFor = Endpoint(API_BASE_URL, NoApiKey)
    /\ ret[1] = RECORDS_BOTH
    /\ minimumAmountsCache.data = RECORDS_BOTH
    /\ now > minimumAmountsCache.timestamp

(***************************************************************************)
(* C27.  A fetchSwapRoute call for srcToken = the wrapped token            *)
(* 0x0D24...0C56 and dstToken = the native marker 0xEeee...EEeE on chain   *)
(* 3637 that has returned, returned a result with at least one route and   *)
(* isAmountOutError = false.                                               *)
(***************************************************************************)
C27_WrappedToNativeHasRoutes ==
    ( /\ routePc = "returned"
      /\ routeOptions.chainId = CHAIN_MAINNET
      /\ routeOptions.srcToken = TokenOn(ADDR_PBTC, CHAIN_MAINNET)
      /\ routeOptions.dstToken = TokenOn(ADDR_NATIVE, CHAIN_MAINNET) )
        => /\ Len(routeResult.routes) > 0
           /\ ~routeResult.isAmountOutError

(***************************************************************************)
(* The hook's part count in the current state, and the threshold data a    *)
(* response hands to the online decision.                                  *)
(***************************************************************************)
HookPartCount == partCountMemo(hookConfig, hookProps, onlinePartCount)

MinOf(r) ==
    IF r.settle = "resolve" /\ r.success = "true"
    THEN MinReturned(OrEmpty(r.data)) ELSE MinThrew

(***************************************************************************)
(* C21.  While the hook is mounted with useOnlinePartCount off and a       *)
(* forcePartCount given, its partCount is forcePartCount as given, for     *)
(* every token pair and chainId (high-value or not, tokens missing or      *)
(* not), every request to the quoting service carries it, and no           *)
(* threshold request is made.                                              *)
(***************************************************************************)
C21_ForcePartCountVerbatim ==
    ( /\ hookPc = "mounted"
      /\ ~hookConfig.useOnlinePartCount
      /\ ~hookConfig.forcePartCount.isNull )
        => /\ HookPartCount = hookConfig.forcePartCount.value
           /\ fetchCalls > 0 => fetchPartCount = hookConfig.forcePartCount.value
           /\ onlineCalls = << >>
           /\ onlinePartCount = NullPartCount

\* A request went out with the forced part count for a pair with a
\* low-value token on the chain without registry entry, where the offline
\* decision is 1.
C21_Witness ==
    /\ hookPc = "mounted"
    /\ ~hookConfig.useOnlinePartCount
    /\ hookConfig.forcePartCount = SomePartCount(MaxPartCount)
    /\ hookProps.dstToken = Token(ADDR_MOCK)
    /\ hookProps.chainId = CHAIN_UNKNOWN
    /\ getPartCountOffline(hookProps.srcToken, hookProps.dstToken,
                           hookProps.chainId, hookConfig.defaultPartCount) = 1
    /\ fetchCalls > 0
    /\ fetchPartCount = MaxPartCount

(***************************************************************************)
(* C22.  With useOnlinePartCount on, the hook's partCount does not depend  *)
(* on forcePartCount: in every mounted state, before and after the online  *)
(* result has arrived, the partCount is the same for every other           *)
(* forcePartCount (given or not) in the config, and so are the decision to *)
(* fetch the online part count and the value each answer of the threshold  *)
(* endpoint puts into onlinePartCount.                                     *)
(***************************************************************************)
C22_OnlineIgnoresForcePartCount ==
    ( hookPc = "mounted" /\ hookConfig.useOnlinePartCount )
        => \A f \in ForcePartCountInputs :
              LET other == [hookConfig EXCEPT !.forcePartCount = f]
              IN  /\ partCountMemo(other, hookProps, onlinePartCount) = HookPartCount
                  /\ OnlineEffectRuns(other, hookProps)
                        = OnlineEffectRuns(hookConfig, hookProps)
                  /\ \A r \in HookThresholdResponses :
                        LET mine   == OnlinePartCountValue(hookConfig, hookProps, MinOf(r))
                            theirs == OnlinePartCountValue(other, hookProps, MinOf(r))
                        IN  /\ theirs = mine
                            /\ partCountMemo(other, hookProps, theirs)
                                 = partCountMemo(hookConfig, hookProps, mine)
                  /\ fetchCalls > 0 =>
                        \/ fetchPartCount = HookPartCount
                        \/ fetchPartCount =
                             partCountMemo(other, hookProps, NullPartCount)

\* The online result 5 has arrived and a request went out with it, under a
\* forcePartCount of another value.
C22_Witness ==
    /\ hookPc = "mounted"
    /\ hookConfig.useOnlinePartCount
    /\ hookConfig.forcePartCount = SomePartCount(MaxPartCount)
    /\ hookConfig.defaultPartCount = 0
    /\ onlinePartCount = SomePartCount(5)
    /\ fetchCalls > 0
    /\ fetchPartCount = 5

(***************************************************************************)
(* C23.  The part count the hook resolves is a positive integer in every   *)
(* mounted state, and so is the part count of every request it sends to    *)
(* the quoting service: for every token pair, chainId, amount, online      *)
(* switch and every defaultPartCount and forcePartCount the caller         *)
(* supplies.                                                               *)
(***************************************************************************)
C23_PartCountPositive ==
    hookPc = "mounted"
        => /\ HookPartCount > 0
           /\ fetchCalls > 0 => fetchPartCount > 0

(***************************************************************************)
(* C26.  While the hook is mounted with refreshInterval = 0 there is no    *)
(* automatic periodic refresh: no interval timer is pending and no         *)
(* interval callback has called debouncedFetchRoute.                       *)
(***************************************************************************)
C26_ZeroIntervalNoRefresh ==
    ( hookPc = "mounted" /\ hookConfig.refreshInterval = 0 )
        => /\ intervalLeft = NoTimer
           /\ timerCalls = 0

(***************************************************************************)
(* What getMinimumAmounts handed to caller p's function: a throw when p's  *)
(* own request failed, otherwise the records p was given.                  *)
(***************************************************************************)
MinOfCall(p) ==
    IF issued[p] /\ ~(resp[p].settle = "resolve" /\ resp[p].success = "true")
    THEN MinThrew ELSE MinReturned(ret[p])

C33_ExpiresAtMonotone ==
    [][ ( /\ ~minimumAmountsCache.isNull
          /\ ~minimumAmountsCache'.isNull )
            => minimumAmountsCache'.expiresAt >= minimumAmountsCache.expiresAt ]_vars

(***************************************************************************)
(* C31: fetchBatchSwapRoutes starts every item's fetchSwapRoute before it  *)
(* waits for any of them: while the batch runs, no item is still waiting   *)
(* to be started, whatever its siblings have done; in particular an item   *)
(* may settle while an item before it in the batch is still in flight.     *)
(***************************************************************************)
C31_BatchStartsAllItems ==
    batchPc = "running" =>
        /\ Len(batchItems) = Len(batchRequests)
        /\ \A i \in 1..Len(batchItems) :
              /\ batchItems[i] # Pending
              /\ batchRequests[i].chainId \in SupportedChains
                   => \/ batchItems[i].pc = "fetching"
                      \/ i \in { settleOrder[k] : k \in 1..Len(settleOrder) }

\* Three requests in flight at once; the last settles first.
C31_Witness ==
    /\ batchPc = "running"
    /\ Len(batchItems) = MaxBatch
    /\ batchItems[1].pc = "fetching"
    /\ batchItems[2].pc = "fetching"
    /\ batchItems[MaxBatch].pc = "fulfilled"

(***************************************************************************)
(* C39: when every external call is eventually answered, a started batch   *)
(* eventually resolves; it never rejects, and it resolves with one result  *)
(* per request, also when every item has failed.                           *)
(***************************************************************************)
C39_BatchEventuallyResolves ==
    /\ [](batchPc # "rejected")
    /\ [](batchPc = "resolved" => Len(batchResult) = Len(batchRequests))
    /\ (batchPc = "running") ~> (batchPc = "resolved")

\* A batch of MaxBatch requests resolved with every item failed.
C39_Witness ==
    /\ batchPc = "resolved"
    /\ Len(batchRequests) = MaxBatch
    /\ Len(batchResult) = MaxBatch
    /\ \A i \in 1..MaxBatch : ~batchResult[i].success

(***************************************************************************)
(* C35.  The hook's onlinePartCount belongs to its current arguments: once *)
(* every fetchOnlinePartCount call has settled, it is a value the call for *)
(* the current arguments can deliver when the online effect ran for them,  *)
(* and null when online mode is off or an argument is missing.  No answer  *)
(* computed for earlier arguments stays in it.                             *)
(***************************************************************************)
C35_OnlinePartCountIsCurrent ==
    ( hookPc = "mounted" /\ onlineCalls = << >> )
        => IF OnlineEffectRuns(hookConfig, hookProps)
           THEN \E r \in HookThresholdResponses :
                   onlinePartCount = OnlinePartCountValue(hookConfig, hookProps, MinOf(r))
           ELSE onlinePartCount = NullPartCount

(***************************************************************************)
(* C36.  Once every fetchRoute call of the hook has settled, the outputs   *)
(* are those of the call started last: the SwapResult in routes and        *)
(* amounts, when there is one, is that call's, and so is the error, when   *)
(* there is one; no older call that settled later left its own.            *)
(***************************************************************************)
C36_LatestCallExposed ==
    ( hookPc = "mounted" /\ fetchPending = {} )
        => /\ exposed.result \in { 0, fetchCalls }
           /\ exposed.error \in { 0, fetchCalls }

(***************************************************************************)
(* C37.  In the hook's outputs isWrap is set only while a wrap or unwrap   *)
(* result is exposed: when routes and amounts are empty, after a reset (no *)
(* amount, a missing token) or a failed fetch, isWrap is undefined.        *)
(***************************************************************************)
C37_IsWrapOnlyWithResult ==
    ( hookPc = "mounted" /\ exposed.isWrap # "undefined" )
        => exposed.result # 0

(***************************************************************************)
(* C38.  Resolving the part count with online mode off touches nothing     *)
(* outside the hook: in every step that leaves the hook mounted with       *)
(* useOnlinePartCount off (the mount, a timer, a fetchRoute call or its    *)
(* answer), the threshold cache is what it was, no request to the          *)
(* threshold endpoint is started or pending, and onlinePartCount stays     *)
(* null; the part count sent is forcePartCount or what getPartCountOffline *)
(* and isHighValueToken compute from the arguments and HIGH_VALUE_TOKENS.  *)
(***************************************************************************)
C38_OfflineResolutionHasNoEffect ==
    [][ ( hookPc' = "mounted" /\ ~hookConfig'.useOnlinePartCount )
          => /\ minimumAmountsCache' = minimumAmountsCache
             /\ installedBy' = installedBy
             /\ onlineCalls' = << >>
             /\ onlinePartCount' = NullPartCount
             /\ fetchCalls' > 0 =>
                   fetchPartCount' =
                     IF ~hookConfig'.forcePartCount.isNull
                     THEN hookConfig'.forcePartCount.value
                     ELSE IF /\ isHighValueToken(hookProps'.srcToken, hookProps'.chainId)
                             /\ isHighValueToken(hookProps'.dstToken, hookProps'.chainId)
                          THEN hookConfig'.defaultPartCount
                          ELSE 1 ]_vars

\* Mounted with online mode off over a cache an earlier mount filled; a
\* request went out with the offline part count of a high-value pair.
C38_Witness ==
    /\ hookPc = "mounted"
    /\ ~hookConfig.useOnlinePartCount
    /\ hookConfig.forcePartCount.isNull
    /\ ~minimumAmountsCache.isNull
    /\ onlineCalls = << >>
    /\ fetchCalls > 0
    /\ fetchPartCount = 5

(***************************************************************************)
(* C32.  A function wrapped by debounce(func, wait) runs once for a burst  *)
(* of calls less than wait apart: every run of func comes wait ms after    *)
(* the last call of its burst, with that call's arguments, and a burst     *)
(* that was cancelled has no run; after a run or a cancel nothing is       *)
(* pending, and each call, also one after a cancel, leaves one timeout     *)
(* pending that is due wait ms after it and carries its arguments.         *)
(***************************************************************************)
C32_DebounceRunsOncePerBurst ==
    /\ \A i \in 1..Len(debounceLog) :
          debounceLog[i].kind = "run"
              => /\ debounceLog[i].burst # << >>
                 /\ debounceLog[i].args
                      = debounceLog[i].burst[Len(debounceLog[i].burst)]
                 /\ debounceLog[i].elapsed = DEBOUNCE_WAIT
    /\ debounceCalls = << >> => debounceTimeout = NoTimer
    /\ debounceCalls # << >>
          => /\ debounceTimeout = DEBOUNCE_WAIT - debounceElapsed
             /\ debounceArgs = debounceCalls[Len(debounceCalls)]

\* A call was cancelled 200 ms after it; then a burst of two calls ran
\* func once, with the arguments of the second.
C32_Witness ==
    /\ Len(debounceLog) = 2
    /\ debounceLog[1].kind = "cancel"
    /\ debounceLog[1].burst = << 1 >>
    /\ debounceLog[1].elapsed = 200
    /\ debounceLog[2].kind = "run"
    /\ debounceLog[2].burst = << 1, 2 >>
    /\ debounceLog[2].args = 2
    /\ debounceCalls = << >>

====
